---- MODULE Spec2Model ----
(***************************************************************************)
(* A model of the KrakenTrades pipeline: the PDF trade-line extractor, the *)
(* per-asset metrics aggregator, the market-data fetch and the report      *)
(* writer, as state machines translated from the Python sources.           *)
(*                                                                         *)
(* Text is modelled at character level: a string is a sequence of          *)
(* one-character strings, so that strip(), startswith() and the regular    *)
(* expressions are computed on the characters as the code computes them.   *)
(***************************************************************************)
EXTENDS Integers, Sequences, FiniteSets, TLC

(***************************************************************************)
(* Bounds of the model.                                                    *)
(***************************************************************************)
MaxPages == 2
MaxLines == 3

(***************************************************************************)
(* Characters and strings.                                                 *)
(***************************************************************************)
Digits == {"0","1","2","3","4","5","6","7","8","9"}
Uppers == {"A","B","C","D","E","F","G","H","I","J","K","L","M",
           "N","O","P","Q","R","S","T","U","V","W","X","Y","Z"}
Spaces == {" ", "\t"}

IsDigit(c) == c \in Digits
IsUpperOrDigit(c) == c \in Uppers \cup Digits
IsSpace(c) == c \in Spaces

\* every character of s is in set S
AllIn(s, S) == \A k \in 1..Len(s) : s[k] \in S

\* str.strip(): drop leading and trailing whitespace
RECURSIVE LStrip(_)
LStrip(s) == IF s # <<>> /\ IsSpace(Head(s)) THEN LStrip(Tail(s)) ELSE s

RECURSIVE RStrip(_)
RStrip(s) ==
    IF s # <<>> /\ IsSpace(s[Len(s)]) THEN RStrip(SubSeq(s, 1, Len(s) - 1)) ELSE s

Strip(s) == RStrip(LStrip(s))

\* str.startswith(prefix)
StartsWith(s, prefix) ==
    Len(s) >= Len(prefix) /\ SubSeq(s, 1, Len(prefix)) = prefix

PageWord == <<"P","a","g","e">>

\* the position of the first character of s that is in set S, or Len(s)+1
FirstIn(s, S) ==
    LET ks == {k \in 1..Len(s) : s[k] \in S}
    IN  IF ks = {} THEN Len(s) + 1
        ELSE CHOOSE k \in ks : \A j \in ks : k <= j

\* the position of the first character of s that is not in set S, or Len(s)+1
FirstNotIn(s, S) ==
    LET ks == {k \in 1..Len(s) : s[k] \notin S}
    IN  IF ks = {} THEN Len(s) + 1
        ELSE CHOOSE k \in ks : \A j \in ks : k <= j

\* the maximal runs of non-whitespace characters of s, in order
RECURSIVE Fields(_)
Fields(s) ==
    LET a == FirstNotIn(s, Spaces)
    IN  IF a > Len(s) THEN <<>>
        ELSE LET rest == SubSeq(s, a, Len(s))
                 b == FirstIn(rest, Spaces)
             IN  <<SubSeq(rest, 1, b - 1)>> \o Fields(SubSeq(rest, b, Len(rest)))

(***************************************************************************)
(* TradeRegex (kraken_core/constants.py).                                  *)
(***************************************************************************)
\* \d{4}-\d{2}-\d{2} as a whole string
IsIsoDate(s) ==
    /\ Len(s) = 10
    /\ \A k \in {1,2,3,4,6,7,9,10} : IsDigit(s[k])
    /\ s[5] = "-" /\ s[8] = "-"

\* TradeRegex.DATE = ^\d{4}-\d{2}-\d{2}$ ; re.match on a stripped line of one
\* page (a line holds no newline, so "$" is the end of the string)
DateMatch(s) == IsIsoDate(s)

\* [A-Z0-9-]+
IsUid(s) == s # <<>> /\ \A k \in 1..Len(s) : IsUpperOrDigit(s[k]) \/ s[k] = "-"

\* [A-Z0-9]+/[A-Z0-9]+
IsPairText(s) ==
    LET k == FirstIn(s, {"/"})
    IN  /\ 1 < k /\ k < Len(s)
        /\ AllIn(SubSeq(s, 1, k - 1), Uppers \cup Digits)
        /\ AllIn(SubSeq(s, k + 1, Len(s)), Uppers \cup Digits)

\* \d+\.\d+
IsDecimal(s) ==
    LET k == FirstIn(s, {"."})
    IN  /\ 1 < k /\ k < Len(s)
        /\ AllIn(SubSeq(s, 1, k - 1), Digits)
        /\ AllIn(SubSeq(s, k + 1, Len(s)), Digits)

BuyWord == <<"B","u","y">>
SellWord == <<"S","e","l","l">>
LimitWord == <<"L","i","m","i","t">>
MarketWord == <<"M","a","r","k","e","t">>

\* TradeRegex.TRADE.match(merged).  The ten groups hold no whitespace and are
\* separated by \s+, and the pattern is anchored at both ends, so it matches
\* exactly when the string starts and ends with a non-space character and
\* its whitespace-separated fields are the ten groups.
TradeMatch(s) ==
    LET f == Fields(s)
    IN  /\ s # <<>> /\ ~IsSpace(s[1]) /\ ~IsSpace(s[Len(s)])
        /\ Len(f) = 10
        /\ IsIsoDate(f[1])
        /\ IsUid(f[2])
        /\ IsPairText(f[3])
        /\ f[4] \in {BuyWord, SellWord}
        /\ f[5] \in {LimitWord, MarketWord}
        /\ \A k \in 6..10 : IsDecimal(f[k])

\* match.groupdict()
GroupDict(s) ==
    LET f == Fields(s)
    IN  [date |-> f[1], uid |-> f[2], pair |-> f[3], type |-> f[4],
         subtype |-> f[5], price |-> f[6], cost |-> f[7], volume |-> f[8],
         fee |-> f[9], margin |-> f[10]]

(***************************************************************************)
(* The lines a page of the export can hold.                                *)
(***************************************************************************)
DateLineText ==
    <<"2","0","2","4","-","0","1","-","0","5">>
BuyLineText ==
    <<"T","X","I","D","1"," ","B","T","C","/","E","U","R"," ","B","u","y"," ",
      "M","a","r","k","e","t"," ","5","0","0","0","0",".","0","0"," ",
      "5","0","0",".","0","0"," ","0",".","0","1"," ","1",".","0","0"," ",
      "0",".","0","0">>
SellLineText ==
    <<"T","X","-","2"," "," ","X","C","N","/","E","U","R"," ","S","e","l","l",
      " ","L","i","m","i","t"," ","0",".","5"," ","6",".","0"," ",
      "1","2",".","0"," ","0",".","1"," ","0",".","0"," ">>
BadLineText ==
    <<"T","X","I","D","3"," ","B","T","C","/","E","U","R"," ","B","u","y"," ",
      "M","a","r","k","e","t"," ","5","0","0","0","0"," ",
      "5","0","0",".","0","0"," ","0",".","0","1"," ","1",".","0","0"," ",
      "0",".","0","0">>
PageLineText ==
    <<" ","P","a","g","e"," ","1"," ","o","f"," ","2">>

LineKinds == {"date", "buy", "sell", "bad", "page"}

Text(kind) ==
    CASE kind = "date" -> DateLineText
      [] kind = "buy" -> BuyLineText
      [] kind = "sell" -> SellLineText
      [] kind = "bad" -> BadLineText
      [] kind = "page" -> PageLineText
      [] kind = "empty" -> <<>>

\* the texts page.extract_text().split("\n") can give: up to MaxLines lines
PageTexts == UNION {[1..n -> LineKinds] : n \in 0..MaxLines}

\* f"{date_line} {trade_line}"
Merge(date_line, trade_line) == date_line \o <<" ">> \o trade_line

(***************************************************************************)
(* State of extract_kraken_trade_records_from_pdf.                         *)
(*   parser        which pdf_parser.py runs: "helpers" is                  *)
(*                 src/file_management (with _extract_trade_lines_from_    *)
(*                 page), "inline" is file_management (one loop)           *)
(*   pdfExists     whether the input path exists                           *)
(*   pageNo        pages read so far                                       *)
(*   lines         the lines of the page being scanned (line kinds)        *)
(*   i             the scan index (0-based, as in the code)                *)
(*   merged_lines  the merge candidates of the page                       *)
(*   merged_at     for each merge candidate, the index i it was formed at  *)
(*   records       the records matched so far                              *)
(*   page_records  the records formed on the current page, each with the   *)
(*                 index i it was formed at                                *)
(*   scanned       the scan positions visited on the current page          *)
(*   matched       number of merge candidates the trade regex accepted     *)
(*   unmatched     number of candidates of the current page it rejected    *)
(*   pcX, errX     control state and the exception raised                  *)
(***************************************************************************)
VARIABLES parser, pdfExists, pageNo, lines, i, merged_lines, merged_at,
          records, page_records, scanned, matched, unmatched, pcX, errX

xvars == <<parser, pdfExists, pageNo, lines, i, merged_lines, merged_at,
           records, page_records, scanned, matched, unmatched, pcX, errX>>

(***************************************************************************)
(* State of the aggregation of one asset (one iteration of the writer's    *)
(* loop over df.groupby(pair)).                                            *)
(*   mWriter   which aggregator runs: "report" is compute_trade_metrics     *)
(*             called by write_portfolio_report, "excel" is write_excel of *)
(*             file_management, "dust" is write_excel of                   *)
(*             src/file_management                                         *)
(*   mPair     the pair of the group                                       *)
(*   mInput    the rows of the group as the table holds them               *)
(*   mGroup    the group after apply_manual_injections ("report")          *)
(*   mBuys     the buy rows that are summed                                *)
(*   mSells    the sell rows that are summed                               *)
(*   mPrice    the market price the fetch gave: <<>> is None               *)
(*   mResult   <<>>, or the one record of metrics computed                 *)
(*   mErr      the exception raised                                        *)
(*   pcA       control state                                               *)
(*   mGiven    the rows of the group as they were before the first call    *)
(*   mCalls    1 during the first aggregation of the group, 2 during the   *)
(*             second one on the same table and market data                *)
(*   mFirst    <<>>, or what the first aggregation gave                    *)
(***************************************************************************)
VARIABLES mWriter, mPair, mInput, mGroup, mBuys, mSells, mPrice, mResult,
          mErr, pcA, mGiven, mCalls, mFirst

mvars == <<mWriter, mPair, mInput, mGroup, mBuys, mSells, mPrice, mResult,
           mErr, pcA, mGiven, mCalls, mFirst>>

(***************************************************************************)
(* State of a run of main() and of the report writer it calls.             *)
(*   variant         which writer main calls: "report" is                  *)
(*                   write_portfolio_report, "excel" is write_excel of     *)
(*                   file_management, "dust" is write_excel of             *)
(*                   src/file_management                                   *)
(*   inputExists     whether the input PDF exists                          *)
(*   run             1, or 2 for a second run on the same input            *)
(*   pcMain          where main() stands                                   *)
(*   stages          the stages called so far, in order                    *)
(*   exit_code       -1 while running, then the exit status                *)
(*   log             the error records logged                              *)
(*   errMain         the exception a stage raised                          *)
(*   raisedIn        the stage that raised it                              *)
(*   extracted       the records the extractor returned                    *)
(*   df              the table build_trade_dataframe returned              *)
(*   pcW             where the writer stands                               *)
(*   todo            the pairs the loop over df.groupby has yet to visit   *)
(*   market          what the market services answer: per pair the Kraken  *)
(*                   price (<<>> for a failed request) and the body of the *)
(*                   CoinGecko bulk request                                *)
(*   market_data_map the result of fetch_bulk_market_data                  *)
(*   roi_records     the metrics of the pairs visited                      *)
(*   totals          the four running sums of the writer                   *)
(*   book            the sheets of the workbook in memory                  *)
(*   fileExists      whether the output file exists                        *)
(*   fileSheets      the sheets saved in the output file                   *)
(*   prev            what run 1 gave, kept for the comparison with run 2   *)
(*   flipped         the pair whose market outcome may differ in run 2     *)
(***************************************************************************)
VARIABLES variant, inputExists, run, prev, flipped,
          pcMain, stages, exit_code, log, errMain, raisedIn, extracted, df,
          pcW, todo, market, market_data_map, roi_records, totals, book,
          fileExists, fileSheets

\* what a run does not change
runvars == <<variant, inputExists, run, prev, flipped>>
\* the locals of the writer
wvars == <<pcW, todo, market, market_data_map, roi_records, totals, book>>
\* the output file
filevars == <<fileExists, fileSheets>>

pvars == <<runvars, pcMain, stages, exit_code, log, errMain, raisedIn,
           extracted, df, wvars, filevars>>

(***************************************************************************)
(* State of one call of generate_portfolio_summary.                        *)
(*   sInput    the four totals it is given, in cents                       *)
(*   sSummary  the rows of the table it returned                           *)
(*   pcS       control state                                               *)
(***************************************************************************)
VARIABLES sInput, sSummary, pcS

svars == <<sInput, sSummary, pcS>>

(***************************************************************************)
(* State of one call of _extract_currency_token on a one-row table.        *)
(*   nPair      the pair of the row                                        *)
(*   nCurrency  the currency column: <<>> is NaN (no match)                *)
(*   nToken     the token column                                           *)
(*   pcN        control state                                              *)
(***************************************************************************)
VARIABLES nPair, nCurrency, nToken, pcN

nvars == <<nPair, nCurrency, nToken, pcN>>

(***************************************************************************)
(* State of one call of fetch_bulk_market_data(pairs, TOKEN_MAP) with its  *)
(* pool of worker threads.                                                 *)
(*   fPairs            the pairs it is given, in order                     *)
(*   fKraken           for each pair, what the Kraken ticker answers to    *)
(*                     its task                                            *)
(*   fCgIds            the token ids the CoinGecko bulk answer holds        *)
(*   pcF               where the calling thread stands                     *)
(*   fSubmitted        how many pairs have been submitted                  *)
(*   fQueue            the work queue of the executor                      *)
(*   fThreads          the number of worker threads of the executor        *)
(*   fTask             the state of the task of each submitted pair        *)
(*   fTaskMd           the MarketData object each started task works on    *)
(*   fHeap             the MarketData objects and their price              *)
(*   fWrites           who has written which object: the calling thread    *)
(*                     is "main", a worker is known by the token id of     *)
(*                     the task it runs                                    *)
(*   market_data_dict  the result map: the object stored for each pair     *)
(*   fDone             the pairs whose task has finished, in the order in  *)
(*                     which they finished                                 *)
(***************************************************************************)
VARIABLES fPairs, fKraken, fCgIds, pcF, fSubmitted, fQueue, fThreads, fTask,
          fTaskMd, fHeap, fWrites, market_data_dict, fDone

fvars == <<fPairs, fKraken, fCgIds, pcF, fSubmitted, fQueue, fThreads, fTask,
           fTaskMd, fHeap, fWrites, market_data_dict, fDone>>

(***************************************************************************)
(* State of one fetch function of market_data.py and of the one GET it     *)
(* issues through the shared session.                                      *)
(*   rFetch     the fetch function: "kraken" is fetch_kraken_data,         *)
(*              "coingecko" is fetch_coingecko_data_bulk, "chart" is       *)
(*              fetch_market_chart_30d                                     *)
(*   rAttempts  how each send of the request ended, in order               *)
(*   rLeft      Retry.total: the retries left                              *)
(*   pcR        control state                                              *)
(*   rExc       the exception session.get raised, "none" when it returned  *)
(*              a response                                                 *)
(*   rReturn    what the fetch function returned                           *)
(*   rRaised    the exception that left the fetch function                 *)
(***************************************************************************)
VARIABLES rFetch, rAttempts, rLeft, pcR, rExc, rReturn, rRaised

rvars == <<rFetch, rAttempts, rLeft, pcR, rExc, rReturn, rRaised>>

(***************************************************************************)
(* State of one call of CNBRateProvider.get_rate.  Days are numbered; the  *)
(* rate published for day d is d, so that a result names its day.          *)
(*   cDate       the day asked for                                         *)
(*   cPublished  the days for which the bank has published a rate          *)
(*   cAnswer     how the request for the year's file ends                  *)
(*   cCache      self._cache: for each year loaded, the days of its series *)
(*   cResult     the rate returned                                         *)
(*   cErr        the exception raised                                      *)
(*   pcC         control state                                             *)
(***************************************************************************)
VARIABLES cDate, cPublished, cAnswer, cCache, cResult, cErr, pcC

cvars == <<cDate, cPublished, cAnswer, cCache, cResult, cErr, pcC>>

(***************************************************************************)
(* State of write_portfolio_report and style_excel, as far as the sheets   *)
(* of the workbook go.                                                     *)
(*   tPairs  the pairs of the trade table                                  *)
(*   tFile   the sheets of the workbook file, in order                     *)
(*   tErr    the exception raised                                          *)
(*   pcT     control state                                                 *)
(***************************************************************************)
VARIABLES tPairs, tFile, tErr, pcT

tvars == <<tPairs, tFile, tErr, pcT>>

(***************************************************************************)
(* State of the remaining-volume computation of write_excel of             *)
(* src/file_management (the variant with the 2% threshold), in lots.       *)
(*   dBought     buy_volume, the sum over the buy rows                     *)
(*   dSold       sell_volume, the sum over the sell rows                   *)
(*   dRemaining  remaining_volume                                          *)
(*   pcD         control state                                             *)
(***************************************************************************)
VARIABLES dBought, dSold, dRemaining, pcD

dvars == <<dBought, dSold, dRemaining, pcD>>

zvars == <<rvars, cvars, tvars, dvars>>

\* the state of the calls studied on their own
qvars == <<svars, nvars, fvars, zvars>>

vars == <<xvars, mvars, pvars, qvars>>

\* generate_portfolio_summary is not running
SummaryIdle == sInput = <<>> /\ sSummary = <<>> /\ pcS = "idle"

\* _extract_currency_token is not running
NormalizeIdle ==
    nPair = <<>> /\ nCurrency = <<>> /\ nToken = <<>> /\ pcN = "idle"

\* fetch_bulk_market_data is not running
FanOutIdle ==
    /\ fPairs = <<>> /\ fKraken = <<>> /\ fCgIds = {} /\ pcF = "idle"
    /\ fSubmitted = 0 /\ fQueue = <<>> /\ fThreads = 0 /\ fTask = <<>>
    /\ fTaskMd = <<>> /\ fHeap = <<>> /\ fWrites = {}
    /\ market_data_dict = <<>> /\ fDone = <<>>

\* no fetch function is running
RetryIdle ==
    /\ rFetch = "none" /\ rAttempts = <<>> /\ rLeft = 0 /\ pcR = "idle"
    /\ rExc = "none" /\ rReturn = "none" /\ rRaised = "none"

\* get_rate is not running
RateIdle ==
    /\ cDate = 0 /\ cPublished = {} /\ cAnswer = "none" /\ cCache = <<>>
    /\ cResult = 0 /\ cErr = "none" /\ pcC = "idle"

\* no workbook is being written
SheetsIdle == tPairs = {} /\ tFile = <<>> /\ tErr = "none" /\ pcT = "idle"

\* no remaining volume is being computed
DustIdle == dBought = 0 /\ dSold = 0 /\ dRemaining = 0 /\ pcD = "idle"

LateIdle == RetryIdle /\ RateIdle /\ SheetsIdle /\ DustIdle

\* none of these calls is running
QuietIdle == SummaryIdle /\ NormalizeIdle /\ FanOutIdle /\ LateIdle

\* the extractor is not running
ExtractIdle ==
    /\ parser = "none" /\ pdfExists = FALSE /\ pageNo = 0 /\ lines = <<>>
    /\ i = 0 /\ merged_lines = <<>> /\ merged_at = <<>> /\ records = <<>>
    /\ page_records = <<>> /\ scanned = {} /\ matched = 0 /\ unmatched = 0
    /\ pcX = "idle" /\ errX = "none"

\* a map with no key
EmptyMap == [p \in {} |-> <<>>]

\* the market services have not been asked
NoMarket == [kraken |-> EmptyMap, cg_ok |-> FALSE, data_list |-> <<>>]

ZeroTotals ==
    [total_buys |-> 0, total_sells |-> 0, unrealized_value |-> 0,
     total_all_sold_now_value |-> 0]

NoPrev == [market |-> NoMarket, roi_records |-> <<>>, fileSheets |-> <<>>]

\* main() is not running
PipelineIdle ==
    /\ variant = "none" /\ inputExists = FALSE /\ run = 0 /\ pcMain = "idle"
    /\ stages = <<>> /\ exit_code = -1 /\ log = <<>> /\ errMain = "none"
    /\ raisedIn = "none"
    /\ extracted = <<>> /\ df = <<>> /\ pcW = "idle" /\ todo = <<>>
    /\ market = NoMarket /\ market_data_map = EmptyMap /\ roi_records = <<>>
    /\ totals = ZeroTotals /\ book = <<>> /\ fileExists = FALSE
    /\ fileSheets = <<>> /\ prev = NoPrev /\ flipped = <<>>

\* no asset is being aggregated
MetricsIdle ==
    /\ mWriter = "none" /\ mPair = <<>> /\ mInput = <<>> /\ mGroup = <<>>
    /\ mBuys = <<>> /\ mSells = <<>> /\ mPrice = <<>> /\ mResult = <<>>
    /\ mErr = "none" /\ pcA = "idle"
    /\ mGiven = <<>> /\ mCalls = 0 /\ mFirst = <<>>

\* lines[i].strip(), with the code's 0-based index
Line(k) == Strip(Text(lines[k + 1]))

IsTradePairNoPageTest(date_line, trade_line) == DateMatch(date_line)

\* if TradeRegex.DATE.match(date_line) and not trade_line.startswith("Page")
IsTradePair(date_line, trade_line) ==
    DateMatch(date_line) /\ ~StartsWith(trade_line, PageWord)

\* the index advances by one after a merge as well
NextIndexByOne(k, is_pair) == k + 1

\* the index stays where it is when nothing is merged
NextIndexStuck(k, is_pair) == IF is_pair THEN k + 2 ELSE k

\* i += 2 after a merge, i += 1 otherwise
NextIndex(k, is_pair) == IF is_pair THEN k + 2 ELSE k + 1

NoRecordsUnchecked(recs) == FALSE

\* if not records
NoRecords(recs) == recs = <<>>

InitExtract ==
    /\ parser \in {"helpers", "inline"}
    /\ pdfExists \in BOOLEAN
    /\ pageNo = 0
    /\ lines = <<>>
    /\ i = 0
    /\ merged_lines = <<>>
    /\ merged_at = <<>>
    /\ records = <<>>
    /\ page_records = <<>>
    /\ scanned = {}
    /\ matched = 0
    /\ unmatched = 0
    /\ pcX = "open"
    /\ errX = "none"
    /\ MetricsIdle
    /\ PipelineIdle
    /\ QuietIdle

\* if not path.exists(): raise FileNotFoundError / pdfplumber.open(path)
OpenPdf ==
    /\ pcX = "open"
    /\ IF pdfExists
       THEN pcX' = "pages" /\ errX' = errX
       ELSE pcX' = "raised" /\ errX' = "FileNotFoundError"
    /\ UNCHANGED <<parser, pdfExists, pageNo, lines, i, merged_lines,
                   merged_at, records, page_records, scanned, matched, unmatched>>
    /\ UNCHANGED <<mvars, pvars, qvars>>

\* for page in pdf.pages: text = page.extract_text(); lines = text.split("\n")
ReadPage ==
    /\ pcX = "pages"
    /\ pageNo < MaxPages
    /\ \E text \in PageTexts :
         /\ pageNo' = pageNo + 1
         /\ IF text # <<>>
            THEN /\ lines' = text
                 /\ pcX' = "scan" /\ errX' = errX
            ELSE IF parser = "helpers"
            THEN \* if not text: continue
                 /\ lines' = <<>>
                 /\ pcX' = "pages" /\ errX' = errX
            ELSE \* extract_text() gives None (split fails) or "" (one line)
                 \/ /\ lines' = <<>>
                    /\ pcX' = "raised" /\ errX' = "AttributeError"
                 \/ /\ lines' = <<"empty">>
                    /\ pcX' = "scan" /\ errX' = errX
    /\ UNCHANGED <<parser, pdfExists, i, merged_lines, merged_at, records,
                   page_records, scanned, matched, unmatched>>
    /\ UNCHANGED <<mvars, pvars, qvars>>

\* the record is put at the front of the list
MatchCandidatePrepending(merged, at) ==
    IF TradeMatch(merged)
    THEN /\ records' = <<GroupDict(merged)>> \o records
         /\ page_records' =
                Append(page_records, [at |-> at, rec |-> GroupDict(merged)])
         /\ matched' = matched + 1
         /\ UNCHANGED unmatched
    ELSE /\ unmatched' = unmatched + 1
         /\ UNCHANGED <<records, page_records, matched>>

\* match = TradeRegex.TRADE.match(merged); if match: records.append(...)
MatchCandidate(merged, at) ==
    IF TradeMatch(merged)
    THEN /\ records' = Append(records, GroupDict(merged))
         /\ page_records' =
                Append(page_records, [at |-> at, rec |-> GroupDict(merged)])
         /\ matched' = matched + 1
         /\ UNCHANGED unmatched
    ELSE /\ unmatched' = unmatched + 1
         /\ UNCHANGED <<records, page_records, matched>>

\* one iteration of: while i < len(lines) - 1
ScanStep ==
    /\ pcX = "scan"
    /\ i < Len(lines) - 1
    /\ LET date_line == Line(i)
           trade_line == Line(i + 1)
           merged == Merge(date_line, trade_line)
       IN  IF IsTradePair(date_line, trade_line)
           THEN /\ i' = NextIndex(i, TRUE)
                /\ IF parser = "helpers"
                   THEN /\ merged_lines' = Append(merged_lines, merged)
                        /\ merged_at' = Append(merged_at, i)
                        /\ UNCHANGED <<records, page_records, matched, unmatched>>
                   ELSE /\ UNCHANGED <<merged_lines, merged_at>>
                        /\ MatchCandidate(merged, i)
           ELSE /\ i' = NextIndex(i, FALSE)
                /\ UNCHANGED <<merged_lines, merged_at, records, page_records,
                               matched, unmatched>>
    /\ scanned' = scanned \cup {i}
    /\ UNCHANGED <<parser, pdfExists, pageNo, lines, pcX, errX>>
    /\ UNCHANGED <<mvars, pvars, qvars>>

\* the loop condition fails: return merged_lines ("inline" has none)
ScanEnd ==
    /\ pcX = "scan"
    /\ ~(i < Len(lines) - 1)
    /\ pcX' = "match"
    /\ UNCHANGED <<parser, pdfExists, pageNo, lines, i, merged_lines, merged_at,
                   records, page_records, scanned, matched, unmatched, errX>>
    /\ UNCHANGED <<mvars, pvars, qvars>>

\* one iteration of: for merged in merged_lines
MatchStep ==
    /\ pcX = "match"
    /\ merged_lines # <<>>
    /\ MatchCandidate(Head(merged_lines), Head(merged_at))
    /\ merged_lines' = Tail(merged_lines)
    /\ merged_at' = Tail(merged_at)
    /\ UNCHANGED <<parser, pdfExists, pageNo, lines, i, scanned, pcX, errX>>
    /\ UNCHANGED <<mvars, pvars, qvars>>

\* every merged line of the page has been tried: on to the next page (the
\* locals of the page are dead from here on and are reset)
MatchEnd ==
    /\ pcX = "match"
    /\ merged_lines = <<>>
    /\ pcX' = "pages"
    /\ lines' = <<>>
    /\ i' = 0
    /\ merged_at' = <<>>
    /\ page_records' = <<>>
    /\ scanned' = {}
    /\ unmatched' = 0
    /\ UNCHANGED <<parser, pdfExists, pageNo, merged_lines, records, matched,
                   errX>>
    /\ UNCHANGED <<mvars, pvars, qvars>>

\* the last page has been read: if not records: raise RuntimeError(...)
FinishExtract ==
    /\ pcX = "pages"
    /\ IF NoRecords(records)
       THEN pcX' = "raised" /\ errX' = "RuntimeError"
       ELSE pcX' = "returned" /\ errX' = errX
    /\ UNCHANGED <<parser, pdfExists, pageNo, lines, i, merged_lines, merged_at,
                   records, page_records, scanned, matched, unmatched>>
    /\ UNCHANGED <<mvars, pvars, qvars>>

NextExtract ==
    \/ OpenPdf
    \/ ReadPage
    \/ ScanStep
    \/ ScanEnd
    \/ MatchStep
    \/ MatchEnd
    \/ FinishExtract

SpecExtract == InitExtract /\ [][NextExtract]_vars

(***************************************************************************)
(* Properties of the extractor.                                            *)
(***************************************************************************)
\* the scan of the current page, and the matching of its candidates, is over
PageDone == pcX = "match" /\ merged_lines = <<>>

\* line k and line k+1 of the current page are a date-line and a line that
\* does not start with "Page", and joined by one space they match TRADE
ValidPairAt(k) ==
    /\ k \in 0..(Len(lines) - 2)
    /\ DateMatch(Line(k))
    /\ ~StartsWith(Line(k + 1), PageWord)
    /\ TradeMatch(Merge(Line(k), Line(k + 1)))

RecordsFrom(k) == {n \in 1..Len(page_records) : page_records[n].at = k}

\* C1: when the extraction ends and no merge candidate of any page matched
\* the trade regex, it ended by raising; it never returns an empty list.
C1_NoEmptySuccess ==
    /\ pcX = "returned" => records # <<>>
    /\ (pcX \in {"returned", "raised"} /\ matched = 0) => pcX = "raised"

C1_Witness ==
    /\ pcX = "raised" /\ errX = "RuntimeError"
    /\ pageNo = MaxPages /\ matched = 0

\* C2: once a page is done, every valid pair (date-line, non-"Page" line,
\* matching TRADE when joined) of the page has produced exactly one record,
\* equal to the named groups of the joined line.
C2_OneRecordPerValidPair ==
    PageDone =>
        \A k \in 0..(Len(lines) - 2) :
            ValidPairAt(k) =>
                /\ Cardinality(RecordsFrom(k)) = 1
                /\ \A n \in RecordsFrom(k) :
                       page_records[n].rec = GroupDict(Merge(Line(k), Line(k + 1)))

\* C3: a scan step at a date-line whose next line starts with "Page" adds no
\* merge candidate and no record and advances the index by exactly one.
C3_PageLineAdvancesByOne ==
    [][(/\ pcX = "scan"
        /\ i < Len(lines) - 1
        /\ DateMatch(Line(i))
        /\ StartsWith(Line(i + 1), PageWord))
       => (/\ i' = i + 1
           /\ pcX' = "scan"
           /\ merged_lines' = merged_lines
           /\ records' = records
           /\ matched' = matched /\ unmatched' = unmatched)]_vars

C3_Witness ==
    /\ pcX = "scan" /\ i >= 1 /\ (i - 1) \in scanned
    /\ DateMatch(Line(i - 1))
    /\ StartsWith(Line(i), PageWord)
    /\ i < Len(lines) - 1

\* the reference scan of the lines ls from the 0-based index k: the merge
\* candidates it emits, each with the index it was formed at
RECURSIVE ReferenceScan(_, _)
ReferenceScan(ls, k) ==
    IF ~(k < Len(ls) - 1) THEN <<>>
    ELSE LET line_i == Strip(Text(ls[k + 1]))
             line_i1 == Strip(Text(ls[k + 2]))
         IN  IF DateMatch(line_i) /\ ~StartsWith(line_i1, PageWord)
             THEN <<[at |-> k, text |-> line_i \o <<" ">> \o line_i1]>>
                  \o ReferenceScan(ls, k + 2)
             ELSE ReferenceScan(ls, k + 1)

\* the texts of the candidates of a scan
TextsOf(cands) == [n \in 1..Len(cands) |-> cands[n].text]

\* the scan loop of the current page has ended
ScanOver == pcX = "scan" /\ ~(i < Len(lines) - 1)

\* C24: _extract_trade_lines_from_page returns what the reference scan
\* gives on the same lines (during the loop, what it has merged so far and
\* the reference scan of the rest make up the reference scan of the page),
\* and the last line is never the line tested as a date-line.
C24_EqualsReferenceScan ==
    (parser = "helpers" /\ pcX = "scan") =>
        /\ merged_lines \o TextsOf(ReferenceScan(lines, i))
              = TextsOf(ReferenceScan(lines, 0))
        /\ ScanOver => merged_lines = TextsOf(ReferenceScan(lines, 0))
        /\ (Len(lines) - 1) \notin scanned

C24_Witness ==
    /\ parser = "helpers"
    /\ ScanOver
    /\ lines = <<"date", "buy", "date">>
    /\ merged_lines = <<Merge(DateLineText, BuyLineText)>>
    /\ scanned = {0}

\* an iteration of the scan loop, as far as the index goes: ScanStep is the
\* only step that can be taken while the loop condition holds
ScanIteration ==
    /\ pcX = "scan"
    /\ i < Len(lines) - 1
    /\ i' \in {i + 1, i + 2}

\* the extractor runs in one thread, which goes on running: an iteration of
\* the scan loop that can be taken is taken
SpecExtractFair == SpecExtract /\ WF_i(ScanIteration)

\* C25: the line scan of a page terminates: every iteration strictly
\* increases the scan index, the loop makes at most len(lines) - 1
\* iterations, and a scan that has begun reaches the end of its loop.
C25_ScanTerminates ==
    /\ [][(pcX = "scan" /\ pcX' = "scan") => i' > i]_vars
    /\ [](pcX = "scan" =>
            /\ Cardinality(scanned) <= Len(lines) - 1
            /\ \A k \in scanned : k < i)
    /\ (pcX = "scan") ~> ScanOver

\* the scan of three lines ended after two iterations, the first of which
\* stepped over a date-line followed by a line that starts with "Page"
C25_Witness ==
    /\ ScanOver
    /\ lines = <<"date", "page", "bad">>
    /\ scanned = {0, 1}
    /\ i = 2

\* the records of the candidates that match the trade regex, in order
MatchingRecords(cands) ==
    LET m == SelectSeq(cands, LAMBDA c : TradeMatch(c.text))
    IN  [n \in 1..Len(m) |-> [at |-> m[n].at, rec |-> GroupDict(m[n].text)]]

MaxRows == 2

BtcEur == <<"B","T","C","/","E","U","R">>
DogeEur == <<"D","O","G","E","/","E","U","R">>
LtcEur == <<"L","T","C","/","E","U","R">>
XcnEur == <<"X","C","N","/","E","U","R">>

\* TradeRegex.PAIR_TOKEN = ^([A-Z0-9]+)/ : the characters before the slash
Token(pair) ==
    LET k == FirstNotIn(pair, Uppers \cup Digits)
    IN  IF 1 < k /\ k <= Len(pair) /\ pair[k] = "/"
        THEN SubSeq(pair, 1, k - 1)
        ELSE <<>>

\* TradeRegex.PAIR_CURRENCY = /([A-Z]+) : the letters that follow the slash
\* (a pair holds one slash); <<>> when no letter follows it
Currency(pair) ==
    LET k == FirstIn(pair, {"/"})
        rest == SubSeq(pair, k + 1, Len(pair))
    IN  SubSeq(rest, 1, FirstNotIn(rest, Uppers) - 1)

\* the transaction prices, fees and volumes a row of the export can carry
Amounts == {0, 500}
Fees == {0, 100}
Volumes == {1, 99, 100}

TradeRows(pair) ==
    [unique_id : {"TXID1"}, pair : {pair}, trade_type : {"Buy", "Sell"},
     transaction_price : Amounts, transferred_volume : Volumes, fee : Fees,
     currency : {Currency(pair)}, token : {Token(pair)}]

\* the rows df.groupby(pair) hands over for one pair: at least one row
Groups(pair) == UNION {[1..n -> TradeRows(pair)] : n \in 1..MaxRows}

\* manual_onyx_injection: 640.0 EUR, 47339.9627 XCN, fee 30.0 EUR
ManualOnyxRow ==
    [unique_id |-> "MANUAL-ONYX-BUY", pair |-> XcnEur, trade_type |-> "Buy",
     transaction_price |-> 64000, transferred_volume |-> 1, fee |-> 3000,
     currency |-> <<"E","U","R">>, token |-> <<"X","C","N">>]

\* manual_litecoin_injection: 16.32 EUR, 0.16468818 LTC, fee 0.0 EUR
ManualLitecoinRow ==
    [unique_id |-> "MANUAL-LTC-BUY", pair |-> LtcEur, trade_type |-> "Buy",
     transaction_price |-> 1632, transferred_volume |-> 1, fee |-> 0,
     currency |-> <<"E","U","R">>, token |-> <<"L","T","C">>]

RowsAfterInjectionInPlace(pair, buys) ==
    IF pair = XcnEur THEN Append(buys, ManualOnyxRow)
    ELSE IF pair = LtcEur THEN Append(buys, ManualLitecoinRow)
    ELSE buys

\* what the caller's frame holds after apply_manual_injections(pair, buys):
\* pd.concat builds a new frame and leaves its arguments as they were
RowsAfterInjection(pair, buys) == buys

\* pd.concat([manual_buy, buys]): the manual row comes first
apply_manual_injections_prepending(pair, buys) ==
    IF pair = XcnEur THEN <<ManualOnyxRow>> \o buys
    ELSE IF pair = LtcEur THEN <<ManualLitecoinRow>> \o buys
    ELSE buys

apply_manual_injections_litecoin_only(pair, buys) ==
    IF pair = LtcEur THEN Append(buys, ManualLitecoinRow) ELSE buys

\* apply_manual_injections(pair, buys): pd.concat([buys, manual_buy])
apply_manual_injections(pair, buys) ==
    IF pair = XcnEur THEN Append(buys, ManualOnyxRow)
    ELSE IF pair = LtcEur THEN Append(buys, ManualLitecoinRow)
    ELSE buys

\* group[group[TRADE_TYPE] == "Buy"], group[group[TRADE_TYPE] == "Sell"]
Buys(group) == SelectSeq(group, LAMBDA r : r.trade_type = "Buy")
Sells(group) == SelectSeq(group, LAMBDA r : r.trade_type = "Sell")

\* rows[col].sum()
RECURSIVE SumOf(_, _)
SumOf(rows, col) ==
    IF rows = <<>> THEN 0 ELSE Head(rows)[col] + SumOf(Tail(rows), col)

Max(a, b) == IF a >= b THEN a ELSE b

(***************************************************************************)
(* Market prices.  An Optional[float] is <<>> (None) or <<p>>.             *)
(***************************************************************************)
NoPrice == <<>>
MarketPrices == {NoPrice, <<0>>, <<2>>}

\* MarketData(): no field is set
EmptyMarketData == [price |-> NoPrice]

\* market_data.price or 0.0
PriceOrZero(price) == IF price = NoPrice \/ price = <<0>> THEN 0 ELSE price[1]

(***************************************************************************)
(* The metrics of one asset.  A ratio is kept exact, as numerator and      *)
(* denominator, with the number of decimals it is rounded to ("all": not   *)
(* rounded).                                                               *)
(***************************************************************************)
RemainingVolumeSwapped(buy_volume, sell_volume) ==
    Max(sell_volume - buy_volume, 0)

\* remaining_volume = max(buy_volume - sell_volume, 0)
RemainingVolume(buy_volume, sell_volume) == Max(buy_volume - sell_volume, 0)

\* remaining_volume = buy_volume - sell_volume
RemainingVolumeExcel(buy_volume, sell_volume) == buy_volume - sell_volume

\* remaining_volume = buy_volume - sell_volume
\* if remaining_volume < 0.02 * buy_volume: remaining_volume = 0
\* the threshold is compared with <=
RemainingVolumeDustInclusive(buy_volume, sell_volume) ==
    IF 100 * (buy_volume - sell_volume) <= 2 * buy_volume
    THEN 0
    ELSE buy_volume - sell_volume

RemainingVolumeDust(buy_volume, sell_volume) ==
    IF 100 * (buy_volume - sell_volume) < 2 * buy_volume
    THEN 0
    ELSE buy_volume - sell_volume

TotalCostNoFee(buy_total, buy_fee) == buy_total

\* cost = float(buy_total + buy_fee)
TotalCost(buy_total, buy_fee) == buy_total + buy_fee

\* (total / volume) if volume else 0.0
AveragePrice(total, volume) ==
    IF volume # 0
    THEN [num |-> total, den |-> volume]
    ELSE [num |-> 0, den |-> 1]

RoiPercentUnguarded(value, cost) ==
    [num |-> (value - cost) * 100, den |-> cost, decimals |-> "all"]

\* (((value - cost) / cost) if cost else 0.0) * 100
RoiPercent(value, cost) ==
    IF cost # 0
    THEN [num |-> (value - cost) * 100, den |-> cost, decimals |-> "all"]
    ELSE [num |-> 0, den |-> 1, decimals |-> "all"]

\* round((((value - cost) / cost) if cost > 0 else 0) * 100, DECIMAL_PLACES_8)
RoiPercentRounded(value, cost) ==
    IF cost > 0
    THEN [num |-> (value - cost) * 100, den |-> cost, decimals |-> "8"]
    ELSE [num |-> 0, den |-> 1, decimals |-> "8"]

\* compute_trade_metrics(pair, group, market_data): the TradeMetricsResult
\* with the fields of its MainSummaryMetrics
compute_trade_metrics(pair, group, market_data) ==
    LET buys == Buys(group)
        sells == Sells(group)
        buy_volume == SumOf(buys, "transferred_volume")
        sell_volume == SumOf(sells, "transferred_volume")
        buy_total == SumOf(buys, "transaction_price")
        buy_fee == SumOf(buys, "fee")
        sell_total == SumOf(sells, "transaction_price")
        remaining_volume == RemainingVolume(buy_volume, sell_volume)
        cost == TotalCost(buy_total, buy_fee)
        market_price == PriceOrZero(market_data.price)
        current_value == remaining_volume * market_price
        potential_value == buy_volume * market_price
        total_value == current_value + sell_total
    IN  [pair |-> pair,
         remaining_volume |-> remaining_volume,
         total_value |-> total_value,
         potential_value |-> potential_value,
         cost |-> cost,
         bought_volume |-> buy_volume,
         sold_volume |-> sell_volume,
         average_buy_price |-> AveragePrice(cost, buy_volume),
         average_sell_price |-> AveragePrice(sell_total, sell_volume),
         market_price |-> market_price,
         realized_sells |-> sell_total,
         unrealized_value |-> current_value,
         roi |-> RoiPercent(total_value, cost),
         if_all_sold_now_roi |-> RoiPercent(potential_value, cost)]

\* remaining_volume * market_price raises TypeError when fetch_market_price
\* returned None
PriceIsNumber(market_price) == market_price # NoPrice

\* the body of the loop of write_excel over one pair, from the sums to the
\* MainSummaryMetrics and the TradeBreakdownSnapshot, for a market price
\* that is a number
write_excel_metrics(writer, pair, buys, sells, market_price) ==
    LET buy_volume == SumOf(buys, "transferred_volume")
        sell_volume == SumOf(sells, "transferred_volume")
        buy_total == SumOf(buys, "transaction_price")
        buy_fee == SumOf(buys, "fee")
        sell_total == SumOf(sells, "transaction_price")
        remaining_volume ==
            IF writer = "dust"
            THEN RemainingVolumeDust(buy_volume, sell_volume)
            ELSE RemainingVolumeExcel(buy_volume, sell_volume)
        cost == TotalCost(buy_total, buy_fee)
        current_value == remaining_volume * market_price[1]
        potential_value == buy_volume * market_price[1]
        total_value == current_value + sell_total
    IN  [pair |-> pair,
         remaining_volume |-> remaining_volume,
         total_value |-> total_value,
         potential_value |-> potential_value,
         cost |-> cost,
         bought_volume |-> buy_volume,
         sold_volume |-> sell_volume,
         market_price |-> market_price[1],
         realized_sells |-> sell_total,
         unrealized_value |-> current_value,
         roi |-> RoiPercentRounded(total_value, cost),
         if_all_sold_now_roi |-> RoiPercentRounded(potential_value, cost)]

Writers == {"report", "excel", "dust"}
MetricPairs == {BtcEur, LtcEur, XcnEur}

InitMetrics ==
    /\ ExtractIdle
    /\ PipelineIdle
    /\ QuietIdle
    /\ mWriter \in Writers
    /\ mPair \in MetricPairs
    /\ mInput \in Groups(mPair)
    /\ mGroup = mInput
    /\ mBuys = <<>>
    /\ mSells = <<>>
    /\ mPrice = NoPrice
    /\ mResult = <<>>
    /\ mErr = "none"
    /\ pcA = "inject"
    /\ mGiven = mInput
    /\ mCalls = 1
    /\ mFirst = <<>>

\* "report": group = apply_manual_injections(pair_str, group)
\* the others: sells = ...; buys = ...; buys = apply_manual_injections(pair, buys)
InjectRows ==
    /\ pcA = "inject"
    /\ IF mWriter = "report"
       THEN /\ mGroup' = apply_manual_injections(mPair, mGroup)
            /\ mInput' = RowsAfterInjection(mPair, mInput)
            /\ UNCHANGED <<mBuys, mSells>>
       ELSE /\ mSells' = Sells(mGroup)
            /\ mBuys' = apply_manual_injections(mPair, Buys(mGroup))
            /\ UNCHANGED <<mGroup, mInput>>
    /\ pcA' = "compute"
    /\ UNCHANGED <<mWriter, mPair, mPrice, mResult, mErr, mGiven, mCalls,
                   mFirst>>
    /\ UNCHANGED <<xvars, pvars, qvars>>

\* the market price arrives and the metrics of the asset are computed
ComputeMetrics ==
    /\ pcA = "compute"
    /\ \E price \in (IF mCalls = 1 THEN MarketPrices ELSE {mPrice}) :
         /\ mPrice' = price
         /\ IF mWriter = "report"
            THEN /\ mBuys' = Buys(mGroup)
                 /\ mSells' = Sells(mGroup)
                 /\ mResult' = <<compute_trade_metrics(mPair, mGroup,
                                                       [price |-> price])>>
                 /\ mErr' = mErr
            ELSE /\ UNCHANGED <<mBuys, mSells>>
                 /\ IF PriceIsNumber(price)
                    THEN /\ mResult' = <<write_excel_metrics(mWriter, mPair,
                                             mBuys, mSells, price)>>
                         /\ mErr' = mErr
                    ELSE /\ mResult' = <<>>
                         /\ mErr' = "TypeError"
    /\ pcA' = "done"
    /\ UNCHANGED <<mWriter, mPair, mInput, mGroup, mGiven, mCalls, mFirst>>
    /\ UNCHANGED <<xvars, pvars, qvars>>

\* the aggregator is called once more on the same table, with the same
\* market data
AggregateAgain ==
    /\ pcA = "done"
    /\ mCalls = 1
    /\ mFirst' = <<[result |-> mResult, err |-> mErr, price |-> mPrice]>>
    /\ mCalls' = 2
    /\ mGroup' = mInput
    /\ mBuys' = <<>>
    /\ mSells' = <<>>
    /\ mResult' = <<>>
    /\ mErr' = "none"
    /\ pcA' = "inject"
    /\ UNCHANGED <<mWriter, mPair, mInput, mPrice, mGiven>>
    /\ UNCHANGED <<xvars, pvars, qvars>>

NextMetrics ==
    \/ InjectRows
    \/ ComputeMetrics
    \/ AggregateAgain

SpecMetrics == InitMetrics /\ [][NextMetrics]_vars

(***************************************************************************)
(* Properties of the metrics of one asset.                                 *)
(***************************************************************************)
\* the metrics of the asset have been computed
MetricsDone == pcA = "done" /\ mResult # <<>>

\* the buy rows of the asset with its manual row, if it has one, and the
\* sell rows
AggregatedBuys ==
    Buys(mInput) \o
    (IF mPair = XcnEur THEN <<ManualOnyxRow>>
     ELSE IF mPair = LtcEur THEN <<ManualLitecoinRow>> ELSE <<>>)

AggregatedSells == Sells(mInput)

BoughtVolume == SumOf(AggregatedBuys, "transferred_volume")
SoldVolume == SumOf(AggregatedSells, "transferred_volume")
BuyCost ==
    SumOf(AggregatedBuys, "transaction_price") + SumOf(AggregatedBuys, "fee")
SellTotal == SumOf(AggregatedSells, "transaction_price")
PriceUsed == IF mPrice = NoPrice THEN 0 ELSE mPrice[1]

\* C9: whichever aggregator computed it, the remaining volume reported for
\* the asset is max(bought - sold, 0), and so never negative.
C9_RemainingIsClamped ==
    MetricsDone =>
        /\ mResult[1].remaining_volume = Max(BoughtVolume - SoldVolume, 0)
        /\ mResult[1].remaining_volume >= 0

\* C10: cost is the sum of the buy transaction prices plus the sum of the buy
\* fees, total_value is remaining_volume * market_price + sell_total,
\* potential_value is bought_volume * market_price, and when cost > 0 roi is
\* (total_value - cost) / cost * 100 and potential_roi is
\* (potential_value - cost) / cost * 100.
C10_RoiFormulas ==
    MetricsDone =>
        LET r == mResult[1]
            tv == r.remaining_volume * PriceUsed + SellTotal
            pv == BoughtVolume * PriceUsed
        IN  /\ r.cost = BuyCost
            /\ r.total_value = tv
            /\ r.potential_value = pv
            /\ BuyCost > 0 =>
                 /\ r.roi.num = (tv - BuyCost) * 100
                 /\ r.roi.den = BuyCost
                 /\ r.if_all_sold_now_roi.num = (pv - BuyCost) * 100
                 /\ r.if_all_sold_now_roi.den = BuyCost

C10_Witness ==
    /\ MetricsDone
    /\ mWriter = "report"
    /\ SumOf(AggregatedBuys, "fee") > 0
    /\ mResult[1].remaining_volume > 0
    /\ SellTotal > 0
    /\ mResult[1].roi.num > 0
    /\ mResult[1].if_all_sold_now_roi.num < 0

\* C11: for an asset whose cost is 0 (no buy rows, or buy rows of zero
\* transaction price and fee) roi and potential_roi are 0 and no ratio is
\* formed with a zero denominator, whatever the sell rows and the market
\* price are.
C11_ZeroCostZeroRoi ==
    MetricsDone =>
        LET r == mResult[1]
        IN  /\ r.roi.den # 0
            /\ r.if_all_sold_now_roi.den # 0
            /\ mWriter = "report" =>
                 /\ r.average_buy_price.den # 0
                 /\ r.average_sell_price.den # 0
            /\ BuyCost = 0 =>
                 /\ r.roi.num = 0
                 /\ r.if_all_sold_now_roi.num = 0

C11_Witness ==
    /\ MetricsDone
    /\ mWriter = "report"
    /\ BuyCost = 0
    /\ BoughtVolume > 0
    /\ SellTotal > 0
    /\ PriceUsed > 0
    /\ mResult[1].roi.num = 0

\* C12: for an asset with bought volume V, sold volume 0 and market price
\* P, unrealized_value is V * P and potential_roi equals roi, in every
\* aggregator, the one with the 2% dust threshold included.
C12_NothingSold ==
    (MetricsDone /\ SoldVolume = 0) =>
        /\ mResult[1].unrealized_value = BoughtVolume * PriceUsed
        /\ mResult[1].if_all_sold_now_roi = mResult[1].roi

C12_Witness ==
    /\ MetricsDone
    /\ mWriter = "dust"
    /\ SoldVolume = 0
    /\ BoughtVolume = 100
    /\ PriceUsed = 2
    /\ mResult[1].unrealized_value = 200
    /\ mResult[1].roi.num # 0

SummedBuys == IF mWriter = "report" THEN Buys(mGroup) ELSE mBuys

\* C14: whenever XCN/EUR is aggregated, the buy rows that are summed are
\* the buy rows of the table followed by one row with unique id
\* MANUAL-ONYX-BUY, 640.00 EUR, fee 30.00 EUR and one lot of 47339.9627 XCN,
\* whatever rows the table holds for the pair; bought volume and cost count
\* it once.
C14_OnyxRowInjectedOnce ==
    (mPair = XcnEur /\ pcA \in {"compute", "done"}) =>
        /\ Len(SummedBuys) = Len(Buys(mGiven)) + 1
        /\ SubSeq(SummedBuys, 1, Len(Buys(mGiven))) = Buys(mGiven)
        /\ LET row == SummedBuys[Len(SummedBuys)]
           IN  /\ row.unique_id = "MANUAL-ONYX-BUY"
               /\ row.trade_type = "Buy"
               /\ row.transaction_price = 64000
               /\ row.fee = 3000
               /\ row.transferred_volume = 1
        /\ Cardinality({k \in 1..Len(SummedBuys) :
               SummedBuys[k].unique_id = "MANUAL-ONYX-BUY"}) = 1
        /\ MetricsDone =>
             /\ mResult[1].bought_volume =
                    SumOf(Buys(mGiven), "transferred_volume") + 1
             /\ mResult[1].cost =
                    SumOf(Buys(mGiven), "transaction_price")
                    + SumOf(Buys(mGiven), "fee") + 67000

\* C30: for a pair other than XCN/EUR and LTC/EUR apply_manual_injections
\* returns the rows it was given; for these two pairs it returns them in
\* their order followed by one Buy row of the pair; the sell rows that are
\* summed are those of the table, in their order (seen when the call has
\* returned).
C30_InjectionFrame ==
    pcA = "compute" =>
        IF mWriter = "report"
        THEN IF mPair \in {XcnEur, LtcEur}
             THEN /\ Len(mGroup) = Len(mGiven) + 1
                  /\ SubSeq(mGroup, 1, Len(mGiven)) = mGiven
                  /\ mGroup[Len(mGroup)].trade_type = "Buy"
                  /\ mGroup[Len(mGroup)].pair = mPair
             ELSE mGroup = mGiven
        ELSE LET given == Buys(mGiven)
             IN  /\ mSells = Sells(mGiven)
                 /\ IF mPair \in {XcnEur, LtcEur}
                    THEN /\ Len(mBuys) = Len(given) + 1
                         /\ SubSeq(mBuys, 1, Len(given)) = given
                         /\ mBuys[Len(mBuys)].trade_type = "Buy"
                         /\ mBuys[Len(mBuys)].pair = mPair
                    ELSE mBuys = given

C30_Witness ==
    /\ pcA = "compute"
    /\ mWriter = "report"
    /\ mPair = LtcEur
    /\ Len(mGiven) = 2
    /\ mGiven[1].trade_type = "Sell"
    /\ mGiven[2].trade_type = "Buy"
    /\ mGroup = mGiven \o <<ManualLitecoinRow>>

C14_Witness ==
    /\ MetricsDone
    /\ mPair = XcnEur
    /\ mWriter = "report"
    /\ Len(Buys(mGiven)) = 1
    /\ Len(Sells(mGiven)) = 1
    /\ Len(SummedBuys) = 2

(***************************************************************************)
(* The table of a run, its pairs and its groups.                           *)
(***************************************************************************)
MaxTableRows == 2

\* the pairs of the runs: DOGE/EUR has no entry in TOKEN_MAP
TablePairs == {BtcEur, DogeEur, LtcEur}

\* the records the extractor can return, with the numbers already read
ExtractedRows ==
    [unique_id : {"TXID1"}, pair : TablePairs, trade_type : {"Buy", "Sell"},
     transaction_price : {500}, transferred_volume : {1}, fee : {100}]

ExtractedTables == UNION {[1..n -> ExtractedRows] : n \in 1..MaxTableRows}

\* build_trade_dataframe: the columns of the records and the two columns
\* _extract_currency_token adds
build_trade_dataframe(recs) ==
    [k \in 1..Len(recs) |->
        [unique_id |-> recs[k].unique_id, pair |-> recs[k].pair,
         trade_type |-> recs[k].trade_type,
         transaction_price |-> recs[k].transaction_price,
         transferred_volume |-> recs[k].transferred_volume,
         fee |-> recs[k].fee,
         currency |-> Currency(recs[k].pair), token |-> Token(recs[k].pair)]]

AdaEur == <<"A","D","A","/","E","U","R">>
DotEur == <<"D","O","T","/","E","U","R">>

\* the entries of TOKEN_MAP for the pairs of the model
TOKEN_MAP ==
    [p \in {AdaEur, BtcEur, DotEur, LtcEur, XcnEur} |->
        CASE p = AdaEur -> "cardano"
          [] p = BtcEur -> "bitcoin"
          [] p = DotEur -> "polkadot"
          [] p = LtcEur -> "litecoin"
          [] p = XcnEur -> "chainx"]

\* the order of str: "/" < digits < upper-case letters < "_"
AsciiOrder ==
    <<"/","0","1","2","3","4","5","6","7","8","9","A","B","C","D","E","F",
      "G","H","I","J","K","L","M","N","O","P","Q","R","S","T","U","V","W",
      "X","Y","Z","_">>

CharRank(c) == CHOOSE k \in 1..Len(AsciiOrder) : AsciiOrder[k] = c

\* a < b for two strings
RECURSIVE StrLess(_, _)
StrLess(a, b) ==
    IF b = <<>> THEN FALSE
    ELSE IF a = <<>> THEN TRUE
    ELSE IF Head(a) = Head(b) THEN StrLess(Tail(a), Tail(b))
    ELSE CharRank(Head(a)) < CharRank(Head(b))

\* df[PAIR].dropna().unique()
PairsOf(table) == {table[k].pair : k \in 1..Len(table)}

\* the keys of df.groupby(PAIR), which sorts them
RECURSIVE SortedPairs(_)
SortedPairs(S) ==
    IF S = {} THEN <<>>
    ELSE LET m == CHOOSE x \in S : \A y \in S \ {x} : StrLess(x, y)
         IN  <<m>> \o SortedPairs(S \ {m})

\* the group of one key
GroupOf(table, pair) == SelectSeq(table, LAMBDA r : r.pair = pair)

(***************************************************************************)
(* The market services.                                                    *)
(***************************************************************************)
\* what the Kraken ticker gives for a pair: a price, or no price (HTTP
\* error, timeout, empty result, malformed body)
KrakenOutcomes == {NoPrice, <<3>>}

\* the current_price of a well-formed element of the CoinGecko list
CoinGeckoPrice == <<2>>

\* the bodies /coins/markets can answer for a set of token ids: a list of
\* elements of distinct ids, each well-formed ("ok") or with a null number
\* ("bad")
DataLists(ids) ==
    {s \in UNION {[1..n -> [id : ids, kind : {"ok", "bad"}]] :
                     n \in 0..Cardinality(ids)} :
        \A a, b \in 1..Len(s) : a # b => s[a].id # s[b].id}

MarketChoices(pairs) ==
    {m \in [kraken : [pairs -> KrakenOutcomes], cg_ok : BOOLEAN,
            data_list : DataLists({TOKEN_MAP[p] : p \in pairs})] :
        ~m.cg_ok => m.data_list = <<>>}

\* fetch_coingecko_data_bulk: the elements are read in order; float(None)
\* on a bad element raises inside the try, and the map built so far is
\* returned
fetch_coingecko_data_bulk(m) ==
    LET bad == {k \in 1..Len(m.data_list) : m.data_list[k].kind = "bad"}
        n == IF bad = {} THEN Len(m.data_list)
             ELSE (CHOOSE k \in bad : \A j \in bad : k <= j) - 1
    IN  [id \in {m.data_list[k].id : k \in 1..n} |-> [price |-> CoinGeckoPrice]]

\* fetch_market_data(pair, token_id, cg_map), with the answer of Kraken
fetch_market_data(token_id, cg_map, kraken_price) ==
    LET md == IF token_id \in DOMAIN cg_map THEN cg_map[token_id]
              ELSE EmptyMarketData
    IN  IF kraken_price # NoPrice
        THEN [md EXCEPT !.price = kraken_price]
        ELSE md

\* token_map[pair] raises KeyError for a pair that is not a key
HasToken(pair) == pair \in DOMAIN TOKEN_MAP

\* fetch_bulk_market_data(pairs, TOKEN_MAP), for pairs that all have a token
fetch_bulk_market_data(pairs, m) ==
    LET cg_map == fetch_coingecko_data_bulk(m)
    IN  [p \in pairs |-> fetch_market_data(TOKEN_MAP[p], cg_map, m.kraken[p])]

(***************************************************************************)
(* Sheets.  A sheet is its title, the buy and sell rows it lists and its   *)
(* summary rows.                                                           *)
(***************************************************************************)
PortfolioTitle == <<"P","o","r","t","f","o","l","i","o">>
AssetRoiTitle == <<"A","s","s","e","t"," ","R","O","I">>
SummaryTitles == {PortfolioTitle, AssetRoiTitle}

\* the pair is cut to 31 characters and its slash is kept
SheetNameKeepingSlash(pair) ==
    IF Len(pair) <= 31 THEN pair ELSE SubSeq(pair, 1, 31)

\* pair.replace("/", "_")[:31]
SheetName(pair) ==
    LET replaced == [k \in 1..Len(pair) |->
                        IF pair[k] = "/" THEN "_" ELSE pair[k]]
    IN  IF Len(replaced) <= 31 THEN replaced ELSE SubSeq(replaced, 1, 31)

\* write_token_sheet / breakdown.to_excel(writer, sheet_name=sheet_name)
TokenSheet(pair, buys, sells, metrics) ==
    [title |-> SheetName(pair), buys |-> buys, sells |-> sells,
     rows |-> <<metrics>>]

RoundEuroHalfUp(cents) ==
    IF cents % 100 < 50 THEN cents \div 100 ELSE cents \div 100 + 1

\* round(x) of an amount of cents to whole euros: halves go to the even one
RoundEuro(cents) ==
    LET q == cents \div 100
        r == cents % 100
    IN  IF r < 50 THEN q
        ELSE IF r > 50 THEN q + 1
        ELSE IF q % 2 = 0 THEN q ELSE q + 1

Abs(x) == IF x >= 0 THEN x ELSE -x

\* generate_portfolio_summary: the rows of the Portfolio sheet, in euros
generate_portfolio_summary(total_buys, total_sells, unrealized_value, total_all_sold_now_value) ==
    LET net_result == RoundEuro(total_sells + unrealized_value - total_buys)
        potential_profit == RoundEuro(total_all_sold_now_value - total_buys)
    IN  <<[metric |-> "Total Buys", value |-> RoundEuro(total_buys),
           up |-> TRUE],
          [metric |-> "Total Sells", value |-> RoundEuro(total_sells),
           up |-> TRUE],
          [metric |-> "Unrealized Value (if rest sold)",
           value |-> RoundEuro(unrealized_value), up |-> TRUE],
          [metric |-> "If All Bought Sold Now (market value)",
           value |-> RoundEuro(total_all_sold_now_value), up |-> TRUE],
          [metric |-> "Net Position", value |-> net_result, up |-> TRUE],
          [metric |-> "You Could Be Up To", value |-> Abs(potential_profit),
           up |-> potential_profit >= 0],
          [metric |-> "Result", value |-> Abs(net_result),
           up |-> net_result >= 0]>>

\* a.roi < b.roi (the denominators are positive)
RoiLess(a, b) == a.roi.num * b.roi.den < b.roi.num * a.roi.den

\* sort_values("roi", ascending=True): rows of equal roi keep their order
RECURSIVE InsertByRoi(_, _)
InsertByRoi(s, r) ==
    IF s = <<>> THEN <<r>>
    ELSE IF RoiLess(r, Head(s)) THEN <<r>> \o s
    ELSE <<Head(s)>> \o InsertByRoi(Tail(s), r)

RECURSIVE SortByRoi(_)
SortByRoi(rs) ==
    IF rs = <<>> THEN <<>>
    ELSE InsertByRoi(SortByRoi(SubSeq(rs, 1, Len(rs) - 1)), rs[Len(rs)])

\* the sort keys of Portfolio and Asset ROI are exchanged
ReorderSheetsRoiFirst(sheets) ==
    SelectSeq(sheets, LAMBDA s : s.title = AssetRoiTitle)
    \o SelectSeq(sheets, LAMBDA s : s.title = PortfolioTitle)
    \o SelectSeq(sheets, LAMBDA s : s.title \notin SummaryTitles)

\* _reorder_sheets: Portfolio, then Asset ROI, then the token sheets
ReorderSheets(sheets) ==
    SelectSeq(sheets, LAMBDA s : s.title = PortfolioTitle)
    \o SelectSeq(sheets, LAMBDA s : s.title = AssetRoiTitle)
    \o SelectSeq(sheets, LAMBDA s : s.title \notin SummaryTitles)

(***************************************************************************)
(* main(): the input check, the stages, the handler of exceptions.         *)
(***************************************************************************)
InitPipeline ==
    /\ ExtractIdle
    /\ MetricsIdle
    /\ QuietIdle
    /\ variant \in Writers
    /\ inputExists \in BOOLEAN
    /\ run = 1
    /\ prev = NoPrev
    /\ flipped = <<>>
    /\ pcMain = "start"
    /\ stages = <<>>
    /\ exit_code = -1
    /\ log = <<>>
    /\ errMain = "none"
    /\ raisedIn = "none"
    /\ extracted = <<>>
    /\ df = <<>>
    /\ pcW = "idle"
    /\ todo = <<>>
    /\ market = NoMarket
    /\ market_data_map = EmptyMap
    /\ roi_records = <<>>
    /\ totals = ZeroTotals
    /\ book = <<>>
    /\ fileExists = FALSE
    /\ fileSheets = <<>>

InputMissingUnchecked(exists) == FALSE

\* if not input_pdf.exists()
InputMissing(exists) == ~exists

\* custom_logger.error("Input PDF does not exist"); sys.exit(1)
CheckInput ==
    /\ pcMain = "start"
    /\ IF InputMissing(inputExists)
       THEN /\ log' = Append(log, "input_missing")
            /\ exit_code' = 1
            /\ pcMain' = "exited"
       ELSE /\ pcMain' = "extract"
            /\ UNCHANGED <<log, exit_code>>
    /\ UNCHANGED <<runvars, stages, errMain, raisedIn, extracted, df, wvars,
                   filevars>>
    /\ UNCHANGED <<xvars, mvars, qvars>>

StageRaisedIgnored(err) == FALSE

\* an exception leaves the try block: control goes to the except clause
StageRaised(err) == err # "none"

\* the stage ends with exception err ("none": it returns) and main goes on
StageEnds(stage, err, next) ==
    /\ errMain' = IF err # "none" THEN err ELSE errMain
    /\ raisedIn' = IF err # "none" THEN stage ELSE raisedIn
    /\ pcMain' = IF StageRaised(err) THEN "raised" ELSE next

\* extracted_records = extract_kraken_trade_records_from_pdf(input_pdf)
ExtractStage ==
    /\ pcMain = "extract"
    /\ stages' = Append(stages, "extract")
    /\ IF ~inputExists
       THEN /\ extracted' = <<>>
            /\ StageEnds("extract", "FileNotFoundError", "build")
       ELSE IF run = 2
       THEN \* the same input gives the same records
            /\ extracted' = extracted
            /\ StageEnds("extract", "none", "build")
       ELSE \/ /\ extracted' = <<>>
               /\ StageEnds("extract", "RuntimeError", "build")
            \/ \E tbl \in ExtractedTables :
                 /\ extracted' = tbl
                 /\ StageEnds("extract", "none", "build")
    /\ UNCHANGED <<runvars, exit_code, log, df, wvars, filevars>>
    /\ UNCHANGED <<xvars, mvars, qvars>>

\* formatted_dfs = build_trade_dataframe(extracted_records)
BuildStage ==
    /\ pcMain = "build"
    /\ stages' = Append(stages, "build")
    /\ df' = build_trade_dataframe(extracted)
    /\ StageEnds("build", "none", "outdir")
    /\ UNCHANGED <<runvars, exit_code, log, extracted, wvars, filevars>>
    /\ UNCHANGED <<xvars, mvars, qvars>>

\* output_dir = get_output_dir(): the directory, or an OSError
OutputDirStage ==
    /\ pcMain = "outdir"
    /\ stages' = Append(stages, "output_dir")
    /\ \/ StageEnds("output_dir", "none", "write")
       \/ /\ run = 1
          /\ StageEnds("output_dir", "OSError", "write")
    /\ UNCHANGED <<runvars, exit_code, log, extracted, df, wvars, filevars>>
    /\ UNCHANGED <<xvars, mvars, qvars>>

\* style_excel(output_file): load, style, _reorder_sheets, save
StyleStage ==
    /\ pcMain = "style"
    /\ stages' = Append(stages, "style")
    /\ \/ /\ fileSheets' = ReorderSheets(fileSheets)
          /\ StageEnds("style", "none", "finish")
       \/ /\ run = 1
          /\ UNCHANGED fileSheets
          /\ StageEnds("style", "OSError", "finish")
    /\ UNCHANGED <<runvars, exit_code, log, extracted, df, wvars, fileExists>>
    /\ UNCHANGED <<xvars, mvars, qvars>>

\* main returns: the process ends with status 0
Finish ==
    /\ pcMain = "finish"
    /\ exit_code' = 0
    /\ pcMain' = "exited"
    /\ UNCHANGED <<runvars, stages, log, errMain, raisedIn, extracted, df,
                   wvars, filevars>>
    /\ UNCHANGED <<xvars, mvars, qvars>>

\* except Exception: custom_logger.exception("Pipeline failed"); sys.exit(1)
HandleException ==
    /\ pcMain = "raised"
    /\ log' = Append(log, "pipeline_failed")
    /\ exit_code' = 1
    /\ pcMain' = "exited"
    /\ UNCHANGED <<runvars, stages, errMain, raisedIn, extracted, df, wvars,
                   filevars>>
    /\ UNCHANGED <<xvars, mvars, qvars>>

(***************************************************************************)
(* The writer stage: write_portfolio_report ("report") and write_excel.    *)
(***************************************************************************)
\* the writer is entered: the running sums and roi_records start empty
EnterWriter ==
    /\ pcMain = "write"
    /\ pcW = "idle"
    /\ stages' = Append(stages, "write")
    /\ totals' = ZeroTotals
    /\ roi_records' = <<>>
    /\ pcW' = IF variant = "report" THEN "fetch" ELSE "open"
    /\ UNCHANGED <<runvars, pcMain, exit_code, log, errMain, raisedIn,
                   extracted, df, todo, market, market_data_map, book,
                   filevars>>
    /\ UNCHANGED <<xvars, mvars, qvars>>

\* run 2 gets the answers of run 1, except for the pair a
SameExceptFor(m2, m1, a) ==
    /\ \A p \in DOMAIN m1.kraken \ {a} : m2.kraken[p] = m1.kraken[p]
    /\ m2.cg_ok = m1.cg_ok
    /\ Len(m2.data_list) = Len(m1.data_list)
    /\ \A k \in 1..Len(m1.data_list) :
         /\ m2.data_list[k].id = m1.data_list[k].id
         /\ m1.data_list[k].id # TOKEN_MAP[a]
              => m2.data_list[k].kind = m1.data_list[k].kind

\* market_data_map = fetch_bulk_market_data(pairs, TOKEN_MAP)
FetchBulk ==
    /\ pcMain = "write"
    /\ pcW = "fetch"
    /\ LET pairs == PairsOf(df)
       IN  IF \E p \in pairs : ~HasToken(p)
           THEN /\ pcW' = "failed"
                /\ StageEnds("write", "KeyError", "write")
                /\ UNCHANGED <<market, market_data_map>>
           ELSE \E m \in MarketChoices(pairs) :
                  /\ run = 2 => SameExceptFor(m, prev.market, flipped)
                  /\ market' = m
                  /\ market_data_map' = fetch_bulk_market_data(pairs, m)
                  /\ pcW' = "open"
                  /\ UNCHANGED <<pcMain, errMain, raisedIn>>
    /\ UNCHANGED <<runvars, stages, exit_code, log, extracted, df, todo,
                   roi_records, totals, book, filevars>>
    /\ UNCHANGED <<xvars, mvars, qvars>>

\* with pd.ExcelWriter(output, engine="openpyxl") as writer: the engine
\* creates the file now or when it saves; or the path cannot be opened
OpenWriter ==
    /\ pcMain = "write"
    /\ pcW = "open"
    /\ \/ /\ run = 1
          /\ pcW' = "failed"
          /\ StageEnds("write", "OSError", "write")
          /\ UNCHANGED <<todo, book, filevars>>
       \/ \E created \in BOOLEAN :
            /\ fileExists' = (fileExists \/ created)
            /\ fileSheets' = IF created THEN <<>> ELSE fileSheets
            /\ book' = <<>>
            /\ todo' = SortedPairs(PairsOf(df))
            /\ pcW' = "pairs"
            /\ UNCHANGED <<pcMain, errMain, raisedIn>>
    /\ UNCHANGED <<runvars, stages, exit_code, log, extracted, df, market,
                   market_data_map, roi_records, totals>>
    /\ UNCHANGED <<xvars, mvars, qvars>>

\* the sums of the writer after the metrics r of one pair
AddToTotalsOverwriting(sums, r) ==
    [total_buys |-> r.cost,
     total_sells |-> r.realized_sells,
     unrealized_value |-> r.unrealized_value,
     total_all_sold_now_value |-> r.potential_value]

\* total_buys_sum += cost, and the three other sums
AddToTotals(sums, r) ==
    [total_buys |-> sums.total_buys + r.cost,
     total_sells |-> sums.total_sells + r.realized_sells,
     unrealized_value |-> sums.unrealized_value + r.unrealized_value,
     total_all_sold_now_value |->
         sums.total_all_sold_now_value + r.potential_value]

\* the pair has been aggregated: sums, roi_records and the token sheet
PairDone(pair, buys, sells, r) ==
    /\ totals' = AddToTotals(totals, r)
    /\ roi_records' = Append(roi_records, r)
    /\ book' = Append(book, TokenSheet(pair, buys, sells, r))
    /\ todo' = Tail(todo)
    /\ UNCHANGED <<pcW, pcMain, errMain, raisedIn, filevars>>

\* an exception leaves the with block: ExcelWriter.__exit__ saves the
\* workbook; with no sheet in it the save itself raises IndexError
WriterExitsOnError(err) ==
    /\ pcW' = "failed"
    /\ IF book # <<>>
       THEN /\ fileExists' = TRUE
            /\ fileSheets' = book
            /\ StageEnds("write", err, "write")
       ELSE /\ UNCHANGED filevars
            /\ StageEnds("write", "IndexError", "write")
    /\ UNCHANGED <<totals, roi_records, book, todo>>

\* one iteration of: for pair, group in df.groupby(PAIR)
ProcessPair ==
    /\ pcMain = "write"
    /\ pcW = "pairs"
    /\ todo # <<>>
    /\ LET pair == Head(todo)
           group == GroupOf(df, pair)
       IN  IF variant = "report"
           THEN LET injected == apply_manual_injections(pair, group)
                    r == compute_trade_metrics(pair, injected,
                                               market_data_map[pair])
                IN  /\ PairDone(pair, Buys(injected), Sells(injected), r)
                    /\ UNCHANGED market
           ELSE \E price \in KrakenOutcomes :
                  LET sells == Sells(group)
                      buys == apply_manual_injections(pair, Buys(group))
                  IN  /\ market' =
                            [market EXCEPT !.kraken =
                                [p \in DOMAIN market.kraken \cup {pair} |->
                                    IF p = pair THEN price
                                    ELSE market.kraken[p]]]
                      /\ IF PriceIsNumber(price)
                         THEN PairDone(pair, buys, sells,
                                  write_excel_metrics(variant, pair, buys,
                                                      sells, price))
                         ELSE WriterExitsOnError("TypeError")
    /\ UNCHANGED <<runvars, stages, exit_code, log, extracted, df,
                   market_data_map>>
    /\ UNCHANGED <<xvars, mvars, qvars>>

\* the Portfolio sheet and the Asset ROI sheet
WriteSummary ==
    /\ pcMain = "write"
    /\ pcW = "pairs"
    /\ todo = <<>>
    /\ book' = book \o
         <<[title |-> PortfolioTitle, buys |-> <<>>, sells |-> <<>>,
            rows |-> generate_portfolio_summary(totals.total_buys,
                         totals.total_sells, totals.unrealized_value,
                         totals.total_all_sold_now_value)],
           [title |-> AssetRoiTitle, buys |-> <<>>, sells |-> <<>>,
            rows |-> SortByRoi(roi_records)]>>
    /\ pcW' = "close"
    /\ UNCHANGED <<runvars, pcMain, stages, exit_code, log, errMain, raisedIn,
                   extracted, df, todo, market, market_data_map, roi_records,
                   totals, filevars>>
    /\ UNCHANGED <<xvars, mvars, qvars>>

\* the with block ends: the workbook is saved and the writer returns
CloseWriter ==
    /\ pcMain = "write"
    /\ pcW = "close"
    /\ fileExists' = TRUE
    /\ fileSheets' = book
    /\ pcW' = "done"
    /\ StageEnds("write", "none", "style")
    /\ UNCHANGED <<runvars, stages, exit_code, log, extracted, df, todo,
                   market, market_data_map, roi_records, totals, book>>
    /\ UNCHANGED <<xvars, mvars, qvars>>

\* main() is run once more on the same input, in a clean output directory;
\* the market services may answer differently for one pair
Rerun ==
    /\ pcMain = "exited"
    /\ run = 1
    /\ variant = "report"
    /\ exit_code = 0
    /\ \E a \in PairsOf(df) :
         /\ flipped' = a
         /\ prev' = [market |-> market, roi_records |-> roi_records,
                     fileSheets |-> fileSheets]
    /\ run' = 2
    /\ pcMain' = "start"
    /\ stages' = <<>>
    /\ exit_code' = -1
    /\ log' = <<>>
    /\ errMain' = "none"
    /\ raisedIn' = "none"
    /\ df' = <<>>
    /\ pcW' = "idle"
    /\ todo' = <<>>
    /\ market' = NoMarket
    /\ market_data_map' = EmptyMap
    /\ roi_records' = <<>>
    /\ totals' = ZeroTotals
    /\ book' = <<>>
    /\ fileExists' = FALSE
    /\ fileSheets' = <<>>
    /\ UNCHANGED <<variant, inputExists, extracted>>
    /\ UNCHANGED <<xvars, mvars, qvars>>

NextPipeline ==
    \/ CheckInput
    \/ ExtractStage
    \/ BuildStage
    \/ OutputDirStage
    \/ EnterWriter
    \/ FetchBulk
    \/ OpenWriter
    \/ ProcessPair
    \/ WriteSummary
    \/ CloseWriter
    \/ StyleStage
    \/ Finish
    \/ HandleException
    \/ Rerun

SpecPipeline == InitPipeline /\ [][NextPipeline]_vars

(***************************************************************************)
(* Properties of a run.                                                    *)
(***************************************************************************)
Exited == pcMain = "exited"

Called(stage) == \E k \in 1..Len(stages) : stages[k] = stage

\* the metrics and the sheets reported for a pair
RecordsOf(recs, pair) == SelectSeq(recs, LAMBDA r : r.pair = pair)
SheetsOf(sheets, pair) == SelectSeq(sheets, LAMBDA s : s.title = SheetName(pair))

\* no market service gave a price for the pair
NoPriceFor(pair) ==
    /\ pair \in DOMAIN market.kraken
    /\ market.kraken[pair] = NoPrice
    /\ variant = "report" =>
         TOKEN_MAP[pair] \notin DOMAIN fetch_coingecko_data_bulk(market)

\* the exceptions of extraction, normalization and aggregation
FatalErrors ==
    {"RuntimeError", "FileNotFoundError", "KeyError", "TypeError",
     "IndexError"}

\* C4: a run that reached the writer and met no I/O error ends with status
\* 0 and a report that holds every pair of the table, whatever the market
\* services answered (also for a pair with no TOKEN_MAP entry); a pair no
\* price was obtained for is reported with market price 0 and unrealized
\* value 0.
C4_MarketFailureNotFatal ==
    (Exited /\ Called("write") /\ errMain # "OSError") =>
        /\ exit_code = 0
        /\ \A p \in PairsOf(df) :
             /\ Len(RecordsOf(roi_records, p)) = 1
             /\ Len(SheetsOf(fileSheets, p)) = 1
             /\ NoPriceFor(p) =>
                  /\ RecordsOf(roi_records, p)[1].market_price = 0
                  /\ RecordsOf(roi_records, p)[1].unrealized_value = 0

\* C5: when a second run differs from the first only in what the market
\* services answer for one pair, every other pair gets the same metrics and
\* the same sheet in both runs.
C5_OtherPairsUnaffected ==
    (Exited /\ run = 2) =>
        \A b \in PairsOf(df) \ {flipped} :
            /\ RecordsOf(roi_records, b) = RecordsOf(prev.roi_records, b)
            /\ SheetsOf(fileSheets, b) = SheetsOf(prev.fileSheets, b)

\* C6: when the run fails with an exception of extraction, normalization
\* or per-asset aggregation, the output file does not exist.
C6_NoFileOnFatalFailure ==
    (Exited /\ exit_code = 1 /\ errMain \in FatalErrors) => ~fileExists

\* C7: when the input PDF does not exist, no stage is ever called (nothing
\* is opened or parsed, the writer and the styler do not run), and the run
\* ends with status 1 after logging the missing input.
C7_MissingInputAborts ==
    (pcMain # "idle" /\ ~inputExists) =>
        /\ stages = <<>>
        /\ pcW = "idle"
        /\ ~fileExists
        /\ pcMain \in {"start", "exited"}
        /\ Exited => (exit_code = 1 /\ log = <<"input_missing">>)

C7_Witness ==
    /\ Exited /\ ~inputExists /\ exit_code = 1 /\ log = <<"input_missing">>

FourStages == {"extract", "build", "write", "style"}

\* C8: once a stage has raised, no further stage is called, the exception
\* is logged and the run ends with status 1; a run that ends with status 0
\* has called extract, build, write and style, in this order, and none of
\* them raised.
C8_FailureExitsOne ==
    /\ errMain # "none" =>
         /\ pcMain \in {"raised", "exited"}
         /\ stages # <<>> /\ stages[Len(stages)] = raisedIn
         /\ Exited => (exit_code = 1 /\ log = <<"pipeline_failed">>)
    /\ (Exited /\ exit_code = 0) =>
         /\ errMain = "none"
         /\ SelectSeq(stages, LAMBDA s : s \in FourStages)
                = <<"extract", "build", "write", "style">>

C8_Witness ==
    /\ Exited /\ exit_code = 1 /\ log = <<"pipeline_failed">>
    /\ errMain = "TypeError" /\ raisedIn = "write"
    /\ stages = <<"extract", "build", "output_dir", "write">>

\* C15: after the k-th asset has been processed each of the four running
\* totals is the sum of the per-asset value (cost, realized sells, unrealized
\* value, potential value) over the first k assets of the loop, each asset
\* counted once.
C15_RunningTotals ==
    pcW \in {"pairs", "close", "done", "failed"} =>
        LET k == Len(roi_records)
            order == SortedPairs(PairsOf(df))
        IN  /\ k <= Len(order)
            /\ pcW # "failed" => k + Len(todo) = Len(order)
            /\ \A j \in 1..k : roi_records[j].pair = order[j]
            /\ totals.total_buys = SumOf(roi_records, "cost")
            /\ totals.total_sells = SumOf(roi_records, "realized_sells")
            /\ totals.unrealized_value =
                   SumOf(roi_records, "unrealized_value")
            /\ totals.total_all_sold_now_value =
                   SumOf(roi_records, "potential_value")

C15_Witness ==
    /\ pcW = "pairs"
    /\ Len(roi_records) = 2
    /\ roi_records[1].cost > 0
    /\ roi_records[2].cost > 0
    /\ roi_records[1].potential_value > 0
    /\ roi_records[2].unrealized_value > 0
    /\ totals.total_buys = roi_records[1].cost + roi_records[2].cost

\* the titles of the sheets of the workbook file
SheetTitles == {fileSheets[k].title : k \in 1..Len(fileSheets)}

\* C23: after a run that exits with status 0 on a table with N distinct
\* pairs, the workbook file exists and holds exactly N+2 sheets: one per
\* pair, named after it, one named Portfolio and one named Asset ROI.
C23_WorkbookHasNPlusTwoSheets ==
    (Exited /\ exit_code = 0) =>
        LET pairs == PairsOf(df)
        IN  /\ fileExists
            /\ Len(fileSheets) = Cardinality(pairs) + 2
            /\ SheetTitles = {SheetName(pair) : pair \in pairs}
                                 \cup {PortfolioTitle, AssetRoiTitle}
            /\ \A k \in 1..Len(fileSheets) :
                  \A j \in 1..Len(fileSheets[k].title) :
                     fileSheets[k].title[j] # "/"

C23_Witness ==
    /\ Exited /\ exit_code = 0
    /\ PairsOf(df) = {BtcEur, LtcEur}
    /\ Len(fileSheets) = 4
    /\ <<"B","T","C","_","E","U","R">> \in SheetTitles
(***************************************************************************)
(* generate_portfolio_summary on its own: the four totals are drawn from   *)
(* amounts that make the differences fall on, below and above half a euro, *)
(* on both sides of zero.                                                  *)
(***************************************************************************)
SummaryAmounts == {0, 50, 149, 150, 250}

InitSummary ==
    /\ LateIdle
    /\ ExtractIdle
    /\ MetricsIdle
    /\ PipelineIdle
    /\ NormalizeIdle
    /\ FanOutIdle
    /\ sInput \in [total_buys : SummaryAmounts, total_sells : SummaryAmounts,
                    unrealized_value : SummaryAmounts,
                    total_all_sold_now_value : SummaryAmounts]
    /\ sSummary = <<>>
    /\ pcS = "call"

\* summary = generate_portfolio_summary(total_buys=..., ...)
Summarize ==
    /\ pcS = "call"
    /\ sSummary' = generate_portfolio_summary(sInput.total_buys,
                        sInput.total_sells, sInput.unrealized_value,
                        sInput.total_all_sold_now_value)
    /\ pcS' = "returned"
    /\ UNCHANGED sInput
    /\ UNCHANGED <<xvars, mvars, pvars, nvars, fvars, zvars>>

NextSummary == Summarize

SpecSummary == InitSummary /\ [][NextSummary]_vars

\* the row of the summary with the given label
SummaryRow(label) ==
    sSummary[CHOOSE k \in 1..Len(sSummary) : sSummary[k].metric = label]

\* n is round(x) for x = cents / 100: the nearest integer, the even one of
\* the two when x lies halfway
IsRounded(n, cents) ==
    /\ 2 * Abs(100 * n - cents) <= 100
    /\ Abs(100 * n - cents) = 50 => n % 2 = 0

\* C16: Net Position is round(total_sells + unrealized_value - total_buys),
\* the potential profit is round(total_all_sold_now_value - total_buys);
\* each status message has the positive wording exactly when its rounded
\* value is >= 0, the negative wording when it is < 0, and shows the
\* absolute value of the rounded number.
C16_SummarySigns ==
    pcS = "returned" =>
        \E net, pot \in -3..6 :
            /\ IsRounded(net, sInput.total_sells + sInput.unrealized_value
                               - sInput.total_buys)
            /\ IsRounded(pot, sInput.total_all_sold_now_value
                               - sInput.total_buys)
            /\ SummaryRow("Net Position").value = net
            /\ SummaryRow("Result").up = (net >= 0)
            /\ SummaryRow("Result").value = (IF net >= 0 THEN net ELSE -net)
            /\ SummaryRow("You Could Be Up To").up = (pot >= 0)
            /\ SummaryRow("You Could Be Up To").value =
                   (IF pot >= 0 THEN pot ELSE -pot)

C16_Witness ==
    /\ pcS = "returned"
    /\ sInput.total_buys = 150
    /\ sInput.total_sells + sInput.unrealized_value = 0
    /\ sInput.total_all_sold_now_value = 250
    /\ SummaryRow("Net Position").value = -2
    /\ ~SummaryRow("Result").up
    /\ SummaryRow("Result").value = 2
    /\ SummaryRow("You Could Be Up To").up
    /\ SummaryRow("You Could Be Up To").value = 1
(***************************************************************************)
(* _extract_currency_token on its own, on a table of one row whose pair is *)
(* any string the trade regex accepts as a pair, over a small alphabet.    *)
(***************************************************************************)
MaxSide == 2

\* the characters of the two sides of a pair: letters and a digit
SideChars == {"A", "B", "1"}

\* [A-Z0-9]+ up to the bound
Sides == UNION {[1..n -> SideChars] : n \in 1..MaxSide}

\* the strings (?P<pair>[A-Z0-9]+/[A-Z0-9]+) can capture
AcceptedPairs == {t \o <<"/">> \o c : t \in Sides, c \in Sides}

InitNormalize ==
    /\ LateIdle
    /\ ExtractIdle
    /\ MetricsIdle
    /\ PipelineIdle
    /\ SummaryIdle
    /\ FanOutIdle
    /\ nPair \in AcceptedPairs
    /\ nCurrency = <<>>
    /\ nToken = <<>>
    /\ pcN = "call"

\* df[CURRENCY] = df[PAIR].str.extract(PAIR_CURRENCY)
\* df[TOKEN] = df[PAIR].str.extract(PAIR_TOKEN)
ExtractCurrencyToken ==
    /\ pcN = "call"
    /\ nCurrency' = Currency(nPair)
    /\ nToken' = Token(nPair)
    /\ pcN' = "returned"
    /\ UNCHANGED nPair
    /\ UNCHANGED <<xvars, mvars, pvars, svars, fvars, zvars>>

NextNormalize == ExtractCurrencyToken

SpecNormalize == InitNormalize /\ [][NextNormalize]_vars

\* the parts of a pair before and after its slash
BeforeSlash(pair) == SubSeq(pair, 1, FirstIn(pair, {"/"}) - 1)
AfterSlash(pair) == SubSeq(pair, FirstIn(pair, {"/"}) + 1, Len(pair))

\* C17: for every pair the trade regex accepts, the token is the whole part
\* before the slash and the currency the whole part after it, so that
\* token + "/" + currency is the pair.
C17_TokenSlashCurrencyIsPair ==
    pcN = "returned" =>
        /\ IsPairText(nPair)
        /\ nToken = BeforeSlash(nPair)
        /\ nCurrency = AfterSlash(nPair)
        /\ nToken \o <<"/">> \o nCurrency = nPair
(***************************************************************************)
(* fetch_bulk_market_data on its own: the calling thread, the executor and *)
(* its worker threads.  A MarketData object is known by where it comes     *)
(* from: an entry of cg_map, or the MarketData() a task got as default.    *)
(***************************************************************************)
MAX_THREADS == 3

MaxPairs == 4

\* the pairs of the table, in the order of df[PAIR].unique()
FanOrder == <<BtcEur, LtcEur, XcnEur, AdaEur, DotEur>>

Min(a, b) == IF a <= b THEN a ELSE b

\* the lists of pairs of a call: pairs that have a token, possibly followed
\* by one that has none
FanLists ==
    LET top == Min(MaxPairs, Len(FanOrder))
    IN  {SubSeq(FanOrder, 1, n) : n \in 1..top}
        \cup {Append(SubSeq(FanOrder, 1, n), DogeEur) : n \in 0..(top - 1)}

RangeOf(seq) == {seq[k] : k \in 1..Len(seq)}

\* the token ids of DOMINANCE_MAPPING among the tokens of the model
DominanceIds == {"bitcoin", "cardano"}

\* the objects of the call
CgObject(token_id) == [kind |-> "cg_map entry", key |-> token_id]
DominanceCache == [kind |-> "global", key |-> "_global_dominance_cache"]
ResultMap == [kind |-> "local", key |-> "market_data_dict"]

TaskObjectSharedDefault(token_id, cg_ids) ==
    IF token_id \in cg_ids THEN CgObject(token_id)
    ELSE [kind |-> "MarketData()", key |-> "default"]

\* md = cg_map.get(token_id, MarketData())
TaskObject(token_id, cg_ids) ==
    IF token_id \in cg_ids THEN CgObject(token_id)
    ELSE [kind |-> "MarketData()", key |-> token_id]

SpawnsThreadUnbounded(threads, idle) == idle = 0

\* ThreadPoolExecutor(max_workers=MAX_THREADS): submit starts a thread when
\* none is idle and fewer than max_workers exist
SpawnsThread(threads, idle) == idle = 0 /\ threads < MAX_THREADS

\* the tasks in a given state
TasksIn(states) == {q \in DOMAIN fTask : fTask[q] \in states}

\* the worker threads that wait for work
IdleThreads ==
    IF fQueue = <<>> THEN fThreads - Cardinality(TasksIn({"running"})) ELSE 0

\* f with key k set to value v
Put(f, k, v) == [q \in DOMAIN f \cup {k} |-> IF q = k THEN v ELSE f[q]]

CollectedByArrival(dict, pair, md) ==
    Put(dict, fPairs[Cardinality(DOMAIN dict) + 1], md)

\* market_data_dict[pair] = future.result()
Collected(dict, pair, md) == Put(dict, pair, md)

InitFanOut ==
    /\ LateIdle
    /\ ExtractIdle
    /\ MetricsIdle
    /\ PipelineIdle
    /\ SummaryIdle
    /\ NormalizeIdle
    /\ fPairs \in FanLists
    /\ fKraken \in [RangeOf(fPairs) \cap DOMAIN TOKEN_MAP -> KrakenOutcomes]
    /\ fCgIds \in {{}, {"bitcoin"}, {TOKEN_MAP[q] : q \in DOMAIN TOKEN_MAP}}
    /\ pcF = "bulk"
    /\ fSubmitted = 0
    /\ fQueue = <<>>
    /\ fThreads = 0
    /\ fTask = <<>>
    /\ fTaskMd = <<>>
    /\ fHeap = <<>>
    /\ fWrites = {}
    /\ market_data_dict = <<>>
    /\ fDone = <<>>

\* cg_map = fetch_coingecko_data_bulk(token_ids), in the calling thread: the
\* entries are built and the dominance cache is filled
FanBulk ==
    /\ pcF = "bulk"
    /\ fHeap' = [o \in {CgObject(id) : id \in fCgIds} |->
                    [price |-> CoinGeckoPrice]]
    /\ fWrites' = {[by |-> "main", obj |-> CgObject(id)] : id \in fCgIds}
                  \cup (IF fCgIds \cap DominanceIds # {}
                        THEN {[by |-> "main", obj |-> DominanceCache]}
                        ELSE {})
    /\ pcF' = "submit"
    /\ UNCHANGED <<fPairs, fKraken, fCgIds, fSubmitted, fQueue, fThreads,
                   fTask, fTaskMd, market_data_dict, fDone>>
    /\ UNCHANGED <<xvars, mvars, pvars, svars, nvars, zvars>>

\* one step of the dict comprehension:
\* executor.submit(fetch_market_data, pair, token_map[pair], cg_map)
Submit ==
    /\ pcF = "submit"
    /\ LET pair == fPairs[fSubmitted + 1]
       IN  IF HasToken(pair)
           THEN /\ fQueue' = Append(fQueue, pair)
                /\ fTask' = Put(fTask, pair, "queued")
                /\ fThreads' = IF SpawnsThread(fThreads, IdleThreads)
                               THEN fThreads + 1
                               ELSE fThreads
                /\ fSubmitted' = fSubmitted + 1
                /\ pcF' = IF fSubmitted + 1 = Len(fPairs)
                          THEN "collect"
                          ELSE "submit"
           ELSE /\ pcF' = "keyerror"
                /\ UNCHANGED <<fQueue, fTask, fThreads, fSubmitted>>
    /\ UNCHANGED <<fPairs, fKraken, fCgIds, fTaskMd, fHeap, fWrites,
                   market_data_dict, fDone>>
    /\ UNCHANGED <<xvars, mvars, pvars, svars, nvars, zvars>>

\* a worker thread takes the next work item and enters fetch_market_data:
\* md = cg_map.get(token_id, MarketData())
StartTask ==
    /\ fQueue # <<>>
    /\ Cardinality(TasksIn({"running"})) < fThreads
    /\ LET pair == Head(fQueue)
           md == TaskObject(TOKEN_MAP[pair], fCgIds)
       IN  /\ fTask' = [fTask EXCEPT ![pair] = "running"]
           /\ fTaskMd' = Put(fTaskMd, pair, md)
           /\ fHeap' = IF md \in DOMAIN fHeap THEN fHeap
                       ELSE Put(fHeap, md, EmptyMarketData)
    /\ fQueue' = Tail(fQueue)
    /\ UNCHANGED <<fPairs, fKraken, fCgIds, pcF, fSubmitted, fThreads,
                   fWrites, market_data_dict, fDone>>
    /\ UNCHANGED <<xvars, mvars, pvars, svars, nvars, zvars>>

\* the worker has the answer of Kraken: md.price = kraken_data["price"] when
\* there is one, return md
FinishTask ==
    \E pair \in TasksIn({"running"}) :
        LET md == fTaskMd[pair]
            price == fKraken[pair]
        IN  /\ IF price # NoPrice
               THEN /\ fHeap' = [fHeap EXCEPT ![md] =
                                     [@ EXCEPT !.price = price]]
                    /\ fWrites' = fWrites \cup
                           {[by |-> TOKEN_MAP[pair], obj |-> md]}
               ELSE UNCHANGED <<fHeap, fWrites>>
            /\ fTask' = [fTask EXCEPT ![pair] = "done"]
            /\ fDone' = Append(fDone, pair)
            /\ UNCHANGED <<fPairs, fKraken, fCgIds, pcF, fSubmitted, fQueue,
                           fThreads, fTaskMd, market_data_dict>>
            /\ UNCHANGED <<xvars, mvars, pvars, svars, nvars, zvars>>

\* one step of: for future in as_completed(future_map)
Collect ==
    /\ pcF = "collect"
    /\ \E pair \in TasksIn({"done"}) :
          /\ market_data_dict' =
                 Collected(market_data_dict, pair, fTaskMd[pair])
          /\ fTask' = [fTask EXCEPT ![pair] = "collected"]
          /\ fWrites' = fWrites \cup {[by |-> "main", obj |-> ResultMap]}
          /\ pcF' = IF TasksIn({"collected"}) \cup {pair} = DOMAIN fTask
                    THEN "exit"
                    ELSE "collect"
    /\ UNCHANGED <<fPairs, fKraken, fCgIds, fSubmitted, fQueue, fThreads,
                   fTaskMd, fHeap, fDone>>
    /\ UNCHANGED <<xvars, mvars, pvars, svars, nvars, zvars>>

\* the with block is left, by its end or by the KeyError of token_map[pair]:
\* shutdown(wait=True) returns when no work item is queued or running
Shutdown ==
    /\ pcF \in {"exit", "keyerror"}
    /\ TasksIn({"queued", "running"}) = {}
    /\ pcF' = IF pcF = "exit" THEN "returned" ELSE "raised"
    /\ UNCHANGED <<fPairs, fKraken, fCgIds, fSubmitted, fQueue, fThreads,
                   fTask, fTaskMd, fHeap, fWrites, market_data_dict, fDone>>
    /\ UNCHANGED <<xvars, mvars, pvars, svars, nvars, zvars>>

NextFanOut ==
    \/ FanBulk
    \/ Submit
    \/ StartTask
    \/ FinishTask
    \/ Collect
    \/ Shutdown

SpecFanOut == InitFanOut /\ [][NextFanOut]_vars

\* C18: at every moment of fetch_bulk_market_data at most 3 per-asset tasks
\* are executing, however many pairs it is given.
C18_AtMostThreeRunning ==
    /\ Cardinality(TasksIn({"running"})) <= 3
    /\ fThreads <= 3

C18_Witness ==
    /\ Len(fPairs) >= 4
    /\ Cardinality(TasksIn({"running"})) = 3
    /\ TasksIn({"queued"}) # {}

\* the entries of cg_map as fetch_coingecko_data_bulk built them
CgMapOfCall == [id \in fCgIds |-> [price |-> CoinGeckoPrice]]

\* C19: fetch_bulk_market_data returns (or raises) only after every task it
\* submitted has finished, and the map it returns gives each pair the market
\* data of its own task, which depends on the answers the task got and not
\* on the order in which the tasks finished.
C19_ResultIgnoresCompletionOrder ==
    /\ pcF \in {"returned", "raised"} =>
         TasksIn({"queued", "running"}) = {}
    /\ pcF = "returned" =>
         /\ DOMAIN market_data_dict = RangeOf(fPairs)
         /\ \A pair \in RangeOf(fPairs) :
               fHeap[market_data_dict[pair]] =
                   fetch_market_data(TOKEN_MAP[pair], CgMapOfCall,
                                     fKraken[pair])

C19_Witness ==
    /\ pcF = "returned"
    /\ Len(fPairs) = 3
    /\ fDone = <<fPairs[3], fPairs[1], fPairs[2]>>
    /\ fKraken[fPairs[1]] # NoPrice
    /\ fKraken[fPairs[3]] = NoPrice
    /\ fCgIds = {"bitcoin"}

\* the writes made by worker threads
WorkerWrites == {w \in fWrites : w.by # "main"}

RETRY_TOTAL == 3

status_forcelist == {"429", "500", "502", "503", "504"}

\* a connection that cannot be made, a response that does not arrive in time
TransportErrors == {"ConnectionError", "ReadTimeout"}

SendOutcomes == {"200", "404"} \cup status_forcelist \cup TransportErrors

\* Retry.is_retry for a response; a transport error of a GET goes through
\* Retry.increment as well, since connect and read are left unset
IsRetry(outcome) == outcome \in status_forcelist \cup TransportErrors

\* Retry.is_exhausted, asked of the Retry object increment has made
IsExhausted(total) == total < 0

\* what session.get raises when the retries are exhausted: MaxRetryError
\* becomes RetryError for a status, ConnectionError otherwise
RaisedByGet(outcome) ==
    IF outcome \in status_forcelist THEN "RetryError" ELSE "ConnectionError"

FetchFunctions == {"kraken", "coingecko", "chart"}

\* what the body of a 200 response holds
Bodies == {"data", "empty", "malformed"}

\* the value a fetch function returns when it has nothing
AbsentValue(fetch) ==
    CASE fetch = "kraken" -> "price None, daily_volume None"
      [] fetch = "coingecko" -> "no entry"
      [] fetch = "chart" -> "None"

\* `except Exception` of the fetch functions catches HTTPError only
CaughtHttpErrorOnly(exc) == exc = "HTTPError"

\* `except Exception` of the fetch functions
Caught(exc) == exc \in {"HTTPError", "RetryError", "ConnectionError", "ValueError"}

\* what the try block of a fetch function ends in: the exception raised in
\* it, or "none"
RaisedInTry(exc, status, body) ==
    IF exc # "none" THEN exc
    ELSE IF status # "200" THEN "HTTPError"
    ELSE IF body = "malformed" THEN "ValueError"
    ELSE "none"

InitRetry ==
    /\ ExtractIdle
    /\ MetricsIdle
    /\ PipelineIdle
    /\ SummaryIdle /\ NormalizeIdle /\ FanOutIdle
    /\ RateIdle /\ SheetsIdle /\ DustIdle
    /\ rFetch \in FetchFunctions
    /\ rAttempts = <<>>
    /\ rLeft = RETRY_TOTAL
    /\ pcR = "send"
    /\ rExc = "none"
    /\ rReturn = "none"
    /\ rRaised = "none"

\* one send of the request inside session.get, and what the adapter makes of
\* its outcome: return the response, send again, or give up
Send ==
    /\ pcR = "send"
    /\ \E outcome \in SendOutcomes :
          /\ rAttempts' = Append(rAttempts, outcome)
          /\ IF ~IsRetry(outcome)
                THEN /\ pcR' = "got"
                     /\ UNCHANGED <<rLeft, rExc>>
                ELSE /\ rLeft' = rLeft - 1
                     /\ IF IsExhausted(rLeft - 1)
                           THEN /\ rExc' = RaisedByGet(outcome)
                                /\ pcR' = "got"
                           ELSE /\ pcR' = "send"
                                /\ UNCHANGED rExc
    /\ UNCHANGED <<rFetch, rReturn, rRaised>>
    /\ UNCHANGED <<xvars, mvars, pvars, svars, nvars, fvars, cvars, tvars, dvars>>

\* the rest of the fetch function, once session.get has returned or raised
FetchReturns ==
    /\ pcR = "got"
    /\ \E body \in Bodies :
          LET status == rAttempts[Len(rAttempts)]
              exc == RaisedInTry(rExc, status, body)
          IN  IF exc # "none" /\ ~Caught(exc)
                 THEN /\ rRaised' = exc
                      /\ UNCHANGED rReturn
                 ELSE /\ rReturn' = IF exc = "none" /\ body = "data"
                                       THEN "values"
                                       ELSE AbsentValue(rFetch)
                      /\ UNCHANGED rRaised
    /\ pcR' = "done"
    /\ UNCHANGED <<rFetch, rAttempts, rLeft, rExc>>
    /\ UNCHANGED <<xvars, mvars, pvars, svars, nvars, fvars, cvars, tvars, dvars>>

NextRetry == Send \/ FetchReturns

SpecRetry == InitRetry /\ [][NextRetry]_vars

\* C21: a GET through the shared session is sent at most 3 times in total,
\* and every send but the last ended in a response with status 429, 500,
\* 502, 503 or 504.
C21_AtMostThreeSends ==
    /\ Len(rAttempts) <= 3
    /\ \A k \in 1..(Len(rAttempts) - 1) : rAttempts[k] \in status_forcelist

\* every send ended in 429 or 5xx and the retries are exhausted
RetriesExhaustedOnStatus ==
    /\ pcR = "done"
    /\ rExc = "RetryError"
    /\ \A k \in 1..Len(rAttempts) : rAttempts[k] \in status_forcelist

\* C22: when every attempt of a market-data GET ends in 429 or 5xx and the
\* retries are exhausted, the fetch function raises nothing and returns its
\* absent value.
C22_ExhaustedRetriesReturnAbsent ==
    RetriesExhaustedOnStatus =>
        /\ rRaised = "none"
        /\ rReturn = AbsentValue(rFetch)

C22_Witness ==
    /\ RetriesExhaustedOnStatus
    /\ rFetch = "kraken"
    /\ rAttempts = <<"429", "503", "500", "429">>
    /\ rReturn = "price None, daily_volume None"

(***************************************************************************)
(* The order of the sheets.  write_portfolio_report writes one sheet per   *)
(* key of df.groupby(PAIR), which sorts the pairs as strings, then the two *)
(* summary sheets; style_excel ends with _reorder_sheets.  The pairs are   *)
(* those of TOKEN_MAP, DOGE/EUR, and BTCB/EUR, whose token extends the     *)
(* token of BTC/EUR: "BTC/EUR" < "BTCB/EUR" while "BTCB_EUR" < "BTC_EUR".  *)
(***************************************************************************)
BtcbEur == <<"B","T","C","B","/","E","U","R">>

SheetPairs == DOMAIN TOKEN_MAP \cup {DogeEur, BtcbEur}

\* a sheet of the workbook with nothing but its title
TitledSheet(title) == [title |-> title, buys |-> <<>>, sells |-> <<>>, rows |-> <<>>]

InitSheets ==
    /\ ExtractIdle
    /\ MetricsIdle
    /\ PipelineIdle
    /\ SummaryIdle /\ NormalizeIdle /\ FanOutIdle
    /\ RetryIdle /\ RateIdle /\ DustIdle
    /\ tPairs \in (SUBSET SheetPairs) \ {{}}
    /\ tFile = <<>>
    /\ tErr = "none"
    /\ pcT = "write"

\* write_portfolio_report: fetch_bulk_market_data looks every pair up in
\* TOKEN_MAP before the writer is opened; then the token sheets, Portfolio
\* and Asset ROI are written and the file is saved
WriteReport ==
    /\ pcT = "write"
    /\ IF \E pair \in tPairs : ~HasToken(pair)
          THEN /\ tErr' = "KeyError"
               /\ pcT' = "failed"
               /\ UNCHANGED tFile
          ELSE LET order == SortedPairs(tPairs)
               IN  /\ tFile' = [k \in 1..Len(order) |->
                                   TitledSheet(SheetName(order[k]))]
                              \o <<TitledSheet(PortfolioTitle),
                                   TitledSheet(AssetRoiTitle)>>
                   /\ pcT' = "style"
                   /\ UNCHANGED tErr
    /\ UNCHANGED tPairs
    /\ UNCHANGED <<xvars, mvars, pvars, svars, nvars, fvars, rvars, cvars, dvars>>

\* style_excel: load the workbook, style, _reorder_sheets, save
StyleExcel ==
    /\ pcT = "style"
    /\ tFile' = ReorderSheets(tFile)
    /\ pcT' = "styled"
    /\ UNCHANGED <<tPairs, tErr>>
    /\ UNCHANGED <<xvars, mvars, pvars, svars, nvars, fvars, rvars, cvars, dvars>>

NextSheets == WriteReport \/ StyleExcel

SpecSheets == InitSheets /\ [][NextSheets]_vars

PrefixTokensRaise ==
    /\ pcT = "failed"
    /\ tErr = "KeyError"
    /\ {BtcEur, BtcbEur} \subseteq tPairs

(***************************************************************************)
(* The 2% threshold on its own: the two sums are drawn from 0..MaxVolume,  *)
(* which holds no buys and no sells (0 and 0), nothing sold, a sale of     *)
(* more than was bought, and a remainder just below, at and above 2%       *)
(* (bought 50 and sold 49 is at 2%).                                       *)
(***************************************************************************)
MaxVolume == 50

InitDust ==
    /\ ExtractIdle
    /\ MetricsIdle
    /\ PipelineIdle
    /\ SummaryIdle /\ NormalizeIdle /\ FanOutIdle
    /\ RetryIdle /\ RateIdle /\ SheetsIdle
    /\ dBought \in 0..MaxVolume
    /\ dSold \in 0..MaxVolume
    /\ dRemaining = 0
    /\ pcD = "sums"

\* remaining_volume = buy_volume - sell_volume; if remaining_volume <
\* 0.02 * buy_volume: remaining_volume = 0
ZeroDust ==
    /\ pcD = "sums"
    /\ dRemaining' = RemainingVolumeDust(dBought, dSold)
    /\ pcD' = "done"
    /\ UNCHANGED <<dBought, dSold>>
    /\ UNCHANGED <<xvars, mvars, pvars, svars, nvars, fvars, rvars, cvars, tvars>>

NextDust == ZeroDust

SpecDust == InitDust /\ [][NextDust]_vars

\* bought - sold is below a fiftieth of what was bought
BelowTwoPercent == 50 * (dBought - dSold) < dBought

\* C27: with the 2% threshold, the remaining volume is 0 when bought - sold
\* is below 2% of the bought volume and bought - sold otherwise; with
\* nothing sold it is the bought volume, also when nothing was bought.
C27_DustThreshold ==
    pcD = "done" =>
        /\ BelowTwoPercent => dRemaining = 0
        /\ ~BelowTwoPercent => dRemaining = dBought - dSold
        /\ dSold = 0 => dRemaining = dBought

\* bought 50, sold 49: the remainder is exactly 2% and is kept
C27_Witness ==
    /\ pcD = "done"
    /\ dBought = 50
    /\ dSold = 49
    /\ dRemaining = 1

(***************************************************************************)
(* CNBRateProvider.get_rate.  The days 1..MaxDay run over a turn of the    *)
(* year: days 1 to 4 are the last days of one year, day 5 is 1 January of  *)
(* the next.  The file of a year lists the days of that year for which a   *)
(* rate was published.                                                     *)
(***************************************************************************)
MaxDay == 10

Days == 1..MaxDay

\* ts.year
YearOf(day) == IF day <= 4 THEN 1 ELSE 2

\* the rate published for a day
RateOf(day) == day

\* for i in range(6)
LookBackRange == 6

\* how the request for the file of the year can end: a 200 response with
\* the file, another status, or an exception (no connection, a timeout, a
\* file that cannot be parsed)
RateAnswers == {"200", "503", "exception"}

InitRate ==
    /\ ExtractIdle
    /\ MetricsIdle
    /\ PipelineIdle
    /\ SummaryIdle /\ NormalizeIdle /\ FanOutIdle
    /\ RetryIdle /\ SheetsIdle /\ DustIdle
    /\ cDate \in Days
    /\ cPublished \in SUBSET Days
    /\ cAnswer \in RateAnswers
    /\ cCache = <<>>
    /\ cResult = 0
    /\ cErr = "none"
    /\ pcC = "call"

\* _load_year(year): the cache entry of the year after the call
LoadedCache(cache, year, answer, published) ==
    IF answer = "200"
    THEN Put(cache, year, {d \in published : YearOf(d) = year})
    ELSE IF answer = "exception"
    THEN Put(cache, year, {})
    ELSE cache

\* if year not in self._cache: self._load_year(year)
LoadYear ==
    /\ pcC = "call"
    /\ LET year == YearOf(cDate)
       IN  IF year \notin DOMAIN cCache
           THEN cCache' = LoadedCache(cCache, year, cAnswer, cPublished)
           ELSE UNCHANGED cCache
    /\ pcC' = "lookup"
    /\ UNCHANGED <<cDate, cPublished, cAnswer, cResult, cErr>>
    /\ UNCHANGED <<xvars, mvars, pvars, svars, nvars, fvars, rvars, tvars, dvars>>

\* rates = self._cache[year]; the first of ts, ts - 1 day, ..., ts - 5 days
\* that is in rates.index gives the rate; return 0.0 when none is
LookUp ==
    /\ pcC = "lookup"
    /\ LET year == YearOf(cDate)
       IN  IF year \notin DOMAIN cCache
           THEN /\ cErr' = "KeyError"
                /\ pcC' = "raised"
                /\ UNCHANGED cResult
           ELSE LET rates == cCache[year]
                    back == {k \in 0..(LookBackRange - 1) :
                                (cDate - k) \in rates}
                IN  /\ cResult' =
                          IF back = {} THEN 0
                          ELSE RateOf(cDate - (CHOOSE k \in back :
                                         \A j \in back : k <= j))
                    /\ pcC' = "returned"
                    /\ UNCHANGED cErr
    /\ UNCHANGED <<cDate, cPublished, cAnswer, cCache>>
    /\ UNCHANGED <<xvars, mvars, pvars, svars, nvars, fvars, rvars, tvars, dvars>>

NextRate == LoadYear \/ LookUp

SpecRate == InitRate /\ [][NextRate]_vars

\* the days of the last five days before the date, and the date itself,
\* for which a rate was published
RecentlyPublished == {d \in cPublished : cDate - 5 <= d /\ d <= cDate}

\* C29: get_rate never raises; it returns the rate of the most recent day
\* with a published rate among the date and the five days before it, also
\* when that day lies in the year before, and 0.0 when there is none or the
\* file of the year could not be loaded (an exception or a status other
\* than 200).
C29_RateNeverRaises ==
    /\ pcC # "raised"
    /\ pcC = "returned" =>
         IF cAnswer = "200" /\ RecentlyPublished # {}
         THEN cResult = RateOf(CHOOSE d \in RecentlyPublished :
                                  \A e \in RecentlyPublished : e <= d)
         ELSE cResult = 0

\* the part of it that the code satisfies: a status other than 200 aside,
\* the result is the most recent rate of the same year within five days
\* back, or 0.0
RateWithinTheYear ==
    /\ pcC = "raised" => cAnswer = "503"
    /\ pcC = "returned" =>
         LET recent == {d \in RecentlyPublished : YearOf(d) = YearOf(cDate)}
         IN  IF cAnswer = "200" /\ recent # {}
             THEN cResult = RateOf(CHOOSE d \in recent :
                                      \A e \in recent : e <= d)
             ELSE cResult = 0
====
